---- MODULE Spec2Model ----
(***************************************************************************)
(* Modbus slave transport: the Net (MBAP) and RTU (CRC-16) codecs, the TCP  *)
(* multi-client server, the UDP server with its FixedQueue of pending      *)
(* correlations, the RTU serial channel and the request handler that       *)
(* answers through Response::make / send.                                   *)
(***************************************************************************)
EXTENDS Integers, Sequences, FiniteSets, TLC

\* ------------------------------------------------------------------------
\* Program constants
\* ------------------------------------------------------------------------
MAX_NREGS == 125
MAX_NCOILS == MAX_NREGS * 16
MAX_DATA_SIZE == 256
COIL_ON == 65280
COIL_OFF == 0
MAX_BUFFER_SIZE == 512
MAX_REQUESTS_NUM == 256

\* ------------------------------------------------------------------------
\* Bounds of the model
\* ------------------------------------------------------------------------
\* requests a run of the TCP server, resp. of the UDP server, may decode
MaxTcpRequests == 2
MaxUdpRequests == 3
\* the capacity of the pending queue in the model; the program uses
\* MAX_REQUESTS_NUM, scaled down here so that eviction is reachable
QueueLimit == 2
\* requests a run of the RTU channel may decode, and the most bytes its
\* input buffer is let to hold
MaxRtuRequests == 2
MaxRtuInput == 16
\* the largest limit of the FixedQueue driven on its own, and the number of
\* values offered to it
MaxQueueLimit == 3
MaxQueueOps == 6
\* the most frames in a byte stream fed to the codec driven on its own
MaxStreamFrames == 2

\* read_pdu on its own: the declared counts tried lie within Margin of 0
\* and of each limit
Margin == 1

\* the CRC on its own: byte sequences of up to MaxCrcLen bytes
MaxCrcLen == 3

\* the longest PDU encoded in Rtu mode, where the CRC is computed over it
MaxRtuPduLen == 16

\* ------------------------------------------------------------------------
\* Rust's Option and Result<Option<_>, Error>
\* ------------------------------------------------------------------------
None == <<>>

Some(x) == <<x>>

OkNone == [kind |-> "none"]

OkSome(v, p) == [kind |-> "some", val |-> v, pos |-> p]

Err(e) == [kind |-> "err", err |-> e]

Panic == [kind |-> "panic"]

Min(a, b) == IF a < b THEN a ELSE b

\* ------------------------------------------------------------------------
\* ReadCtx: a byte slice and a cursor position (0-based count of consumed
\* bytes).  A short read is None.
\* ------------------------------------------------------------------------
remaining(buf, pos) == Len(buf) - pos

read_u8(buf, pos) ==
    IF remaining(buf, pos) >= 1
    THEN Some([v |-> buf[pos + 1], pos |-> pos + 1])
    ELSE None

read_u16_be(buf, pos) ==
    IF remaining(buf, pos) >= 2
    THEN Some([v |-> buf[pos + 1] * 256 + buf[pos + 2], pos |-> pos + 2])
    ELSE None

is_enough(buf, pos, size) == remaining(buf, pos) >= size

\* ------------------------------------------------------------------------
\* data::checks and data::helpers
\* ------------------------------------------------------------------------
check_coils_count_allow_zero(nobjs) == nobjs <= MAX_NCOILS

check_coils_count(nobjs) == nobjs > 0 /\ nobjs <= MAX_NCOILS

check_registers_count_as_coils(nobjs) == nobjs > 0 /\ nobjs <= MAX_NCOILS

check_registers_count(nobjs) == nobjs > 0 /\ nobjs <= MAX_NREGS

checks_bytes_count(n) == n > 0 /\ n <= MAX_DATA_SIZE

get_coils_len(nobjs) == IF nobjs > 0 THEN ((nobjs - 1) \div 8) + 1 ELSE 0

get_registers_len(nobjs) == (nobjs * 2) % 65536

check_mei_type(mei_type) == mei_type \in {14, 13}

\* RegistersCursorBe::registers_write on a little-endian host: each wire
\* pair is read native-endian and stored big-endian, i.e. byte-swapped.
\* A byte left over after the last pair is not copied.
SwapPairs(bytes) ==
    [i \in 1..(2 * (Len(bytes) \div 2)) |->
        bytes[IF i % 2 = 1 THEN i + 1 ELSE i - 1]]

\* ------------------------------------------------------------------------
\* codec::mbap
\* ------------------------------------------------------------------------
validate_mbap_length_first(mbap) ==
    IF mbap.len < 2 \/ mbap.len > MAX_DATA_SIZE THEN Err("InvalidData")
    ELSE IF mbap.proto # 0 THEN Err("InvalidVersion")
    ELSE [kind |-> "ok"]

validate_mbap(mbap) ==
    IF mbap.proto # 0 THEN Err("InvalidVersion")
    ELSE IF mbap.len < 2 \/ mbap.len > MAX_DATA_SIZE THEN Err("InvalidData")
    ELSE [kind |-> "ok"]

read_mbap(buf, pos) ==
    LET id == read_u16_be(buf, pos) IN
    IF id = None THEN OkNone ELSE
    LET proto == read_u16_be(buf, id[1].pos) IN
    IF proto = None THEN OkNone ELSE
    LET len == read_u16_be(buf, proto[1].pos) IN
    IF len = None THEN OkNone ELSE
    LET slave == read_u8(buf, len[1].pos) IN
    IF slave = None THEN OkNone ELSE
    LET mbap == [id |-> id[1].v, proto |-> proto[1].v,
                 len |-> len[1].v, slave |-> slave[1].v] IN
    IF validate_mbap(mbap).kind = "err" THEN validate_mbap(mbap)
    ELSE OkSome(mbap, slave[1].pos)

\* ------------------------------------------------------------------------
\* codec::pduext::read_pdu
\* ------------------------------------------------------------------------
raw_to_coil(value) ==
    IF value \in {COIL_ON, COIL_OFF}
    THEN [kind |-> "ok", val |-> (value = COIL_ON)]
    ELSE Err("InvalidData")

read_address_nobjs(buf, pos) ==
    LET address == read_u16_be(buf, pos) IN
    IF address = None THEN None ELSE
    LET nobjs == read_u16_be(buf, address[1].pos) IN
    IF nobjs = None THEN None
    ELSE Some([address |-> address[1].v, v |-> nobjs[1].v, pos |-> nobjs[1].pos])

\* the match on the function code: f is the code, p the cursor after it, an
\* the address and the count read there (used by the branches that read them)
read_pdu_func(buf, f, p, an) ==
    CASE f \in {1, 2} ->
           IF an = None THEN OkNone
           ELSE IF ~check_coils_count(an[1].v) THEN Err("InvalidData")
           ELSE OkSome([function |-> f, address |-> an[1].address,
                        nobjs |-> an[1].v], an[1].pos)
      [] f \in {3, 4} ->
           IF an = None THEN OkNone
           ELSE IF ~check_registers_count(an[1].v) THEN Err("InvalidData")
           ELSE OkSome([function |-> f, address |-> an[1].address,
                        nobjs |-> an[1].v], an[1].pos)
      [] f = 5 ->
           IF an = None THEN OkNone
           ELSE IF raw_to_coil(an[1].v).kind = "err" THEN Err("InvalidData")
           ELSE OkSome([function |-> f, address |-> an[1].address,
                        value |-> raw_to_coil(an[1].v).val], an[1].pos)
      [] f = 6 ->
           IF an = None THEN OkNone
           ELSE OkSome([function |-> f, address |-> an[1].address,
                        value |-> an[1].v], an[1].pos)
      [] f = 15 ->
           IF an = None THEN OkNone ELSE
           LET nbytes == read_u8(buf, an[1].pos) IN
           IF nbytes = None THEN OkNone
           ELSE IF ~check_coils_count(an[1].v) THEN Err("InvalidData")
           ELSE IF get_coils_len(an[1].v) # nbytes[1].v THEN Err("InvalidData")
           ELSE IF ~is_enough(buf, nbytes[1].pos, nbytes[1].v) THEN OkNone
           ELSE LET q == nbytes[1].pos
                    n == get_coils_len(an[1].v)
                IN OkSome([function |-> f, address |-> an[1].address,
                           nobjs |-> an[1].v,
                           data |-> SubSeq(buf, q + 1, q + n)], q + n)
      [] f = 16 ->
           IF an = None THEN OkNone ELSE
           LET nbytes == read_u8(buf, an[1].pos) IN
           IF nbytes = None THEN OkNone
           ELSE IF ~check_registers_count(an[1].v) THEN Err("InvalidData")
           ELSE IF get_registers_len(an[1].v) # nbytes[1].v THEN Err("InvalidData")
           ELSE IF ~is_enough(buf, nbytes[1].pos, nbytes[1].v) THEN OkNone
           ELSE LET q == nbytes[1].pos
                    n == get_registers_len(an[1].v)
                IN OkSome([function |-> f, address |-> an[1].address,
                           nobjs |-> an[1].v,
                           data |-> SwapPairs(SubSeq(buf, q + 1, q + n))], q + n)
      [] f = 43 ->
           LET mei_type == read_u8(buf, p) IN
           IF mei_type = None THEN OkNone
           ELSE IF ~check_mei_type(mei_type[1].v) THEN Err("InvalidData")
           ELSE IF ~is_enough(buf, mei_type[1].pos, 1) THEN OkNone
           ELSE LET q == mei_type[1].pos
                    n == IF mei_type[1].v = 14 THEN 1
                         ELSE remaining(buf, q) % 65536
                IN IF ~checks_bytes_count(n) THEN Panic
                   ELSE OkSome([function |-> f, mei_type |-> mei_type[1].v,
                                data |-> SubSeq(buf, q + 1, q + n)], q + n)
      [] OTHER ->
           LET min == Min(remaining(buf, p), MAX_DATA_SIZE) IN
           OkSome([function |-> f, raw |-> TRUE,
                   data |-> SubSeq(buf, p + 1, p + min)], p + min)

\* the function code read at the cursor; a short read is Ok(None)
read_pdu_at(buf, func) ==
    IF func = None THEN OkNone
    ELSE read_pdu_func(buf, func[1].v, func[1].pos,
                       read_address_nobjs(buf, func[1].pos))

read_pdu(buf, pos) == read_pdu_at(buf, read_u8(buf, pos))

\* ------------------------------------------------------------------------
\* codec::slave: read_net_frame, advance_buffer, SlaveCodec::decode
\* ------------------------------------------------------------------------
\* RequestFrame { id: header.id, slave: header.slave, pdu } once the PDU is read
net_frame(header, pdu) ==
    IF pdu.kind # "some" THEN pdu
    ELSE OkSome([id |-> header.val.id, slave |-> header.val.slave,
                 pdu |-> pdu.val], pdu.pos)

\* the PDU is read where the header ends
read_net_pdu(buf, header) ==
    IF header.kind # "some" THEN header
    ELSE net_frame(header, read_pdu(buf, header.pos))

read_net_frame(buf) == read_net_pdu(buf, read_mbap(buf, 0))

\* the input buffer after the decode call: advanced past the frame, cleared
\* on an error (and on an incomplete frame in Packet mode), else untouched
advance_buffer_keep_in_packet(is_packet, src, msg) ==
    IF msg.kind = "some" THEN SubSeq(src, msg.pos + 1, Len(src))
    ELSE IF msg.kind = "err" THEN <<>>
    ELSE src

advance_buffer_keep_on_err(is_packet, src, msg) ==
    IF msg.kind = "some" THEN SubSeq(src, msg.pos + 1, Len(src))
    ELSE IF msg.kind = "none" /\ is_packet THEN <<>>
    ELSE src

advance_buffer(is_packet, src, msg) ==
    IF msg.kind = "some" THEN SubSeq(src, msg.pos + 1, Len(src))
    ELSE IF msg.kind = "err" \/ (msg.kind = "none" /\ is_packet) THEN <<>>
    ELSE src

\* SlaveCodec::decode in Net mode: the result and the buffer left behind
decoded(is_packet, src, msg) ==
    [res |-> msg, input |-> advance_buffer(is_packet, src, msg)]

decode(is_packet, src) == decoded(is_packet, src, read_net_frame(src))

\* ------------------------------------------------------------------------
\* CRC-16/Modbus: the table, the byte-at-a-time update and calc_crc_be
\* ------------------------------------------------------------------------
RECURSIVE Xor(_, _)
\* bitwise exclusive or of two naturals
Xor(a, b) ==
    IF a = 0 THEN b
    ELSE IF b = 0 THEN a
    ELSE (((a % 2) + (b % 2)) % 2) + 2 * Xor(a \div 2, b \div 2)

CRC16 == <<
    0, 49345, 49537, 320, 49921, 960, 640, 49729,
    50689, 1728, 1920, 51009, 1280, 50625, 50305, 1088,
    52225, 3264, 3456, 52545, 3840, 53185, 52865, 3648,
    2560, 51905, 52097, 2880, 51457, 2496, 2176, 51265,
    55297, 6336, 6528, 55617, 6912, 56257, 55937, 6720,
    7680, 57025, 57217, 8000, 56577, 7616, 7296, 56385,
    5120, 54465, 54657, 5440, 55041, 6080, 5760, 54849,
    53761, 4800, 4992, 54081, 4352, 53697, 53377, 4160,
    61441, 12480, 12672, 61761, 13056, 62401, 62081, 12864,
    13824, 63169, 63361, 14144, 62721, 13760, 13440, 62529,
    15360, 64705, 64897, 15680, 65281, 16320, 16000, 65089,
    64001, 15040, 15232, 64321, 14592, 63937, 63617, 14400,
    10240, 59585, 59777, 10560, 60161, 11200, 10880, 59969,
    60929, 11968, 12160, 61249, 11520, 60865, 60545, 11328,
    58369, 9408, 9600, 58689, 9984, 59329, 59009, 9792,
    8704, 58049, 58241, 9024, 57601, 8640, 8320, 57409,
    40961, 24768, 24960, 41281, 25344, 41921, 41601, 25152,
    26112, 42689, 42881, 26432, 42241, 26048, 25728, 42049,
    27648, 44225, 44417, 27968, 44801, 28608, 28288, 44609,
    43521, 27328, 27520, 43841, 26880, 43457, 43137, 26688,
    30720, 47297, 47489, 31040, 47873, 31680, 31360, 47681,
    48641, 32448, 32640, 48961, 32000, 48577, 48257, 31808,
    46081, 29888, 30080, 46401, 30464, 47041, 46721, 30272,
    29184, 45761, 45953, 29504, 45313, 29120, 28800, 45121,
    20480, 37057, 37249, 20800, 37633, 21440, 21120, 37441,
    38401, 22208, 22400, 38721, 21760, 38337, 38017, 21568,
    39937, 23744, 23936, 40257, 24320, 40897, 40577, 24128,
    23040, 39617, 39809, 23360, 39169, 22976, 22656, 38977,
    34817, 18624, 18816, 35137, 19200, 35777, 35457, 19008,
    19968, 36545, 36737, 20288, 36097, 19904, 19584, 35905,
    17408, 33985, 34177, 17728, 34561, 18368, 18048, 34369,
    33281, 17088, 17280, 33601, 16640, 33217, 32897, 16448>>

RECURSIVE calc_crc_inner_msb_first(_, _)
calc_crc_inner_msb_first(crc, bytes) ==
    IF bytes = <<>> THEN crc
    ELSE calc_crc_inner_msb_first(
             Xor((crc * 256) % 65536,
                 CRC16[Xor(crc \div 256, bytes[1]) + 1]),
             Tail(bytes))

RECURSIVE calc_crc_inner(_, _)
\* new_crc = new_crc >> 8 ^ CRC16[(new_crc ^ byte) & 0xFF], byte after byte
calc_crc_inner(crc, bytes) ==
    IF bytes = <<>> THEN crc
    ELSE calc_crc_inner(
             Xor(crc \div 256, CRC16[(Xor(crc, bytes[1]) % 256) + 1]),
             Tail(bytes))

\* u16::from_be on a little-endian host: the two bytes swapped
from_be(v) == (v % 256) * 256 + (v \div 256)

\* the accumulator started at 0xFFFF, byte-swapped so that write_u16_be puts
\* its low byte first on the wire
calc_crc_be(bytes) == from_be(calc_crc_inner(65535, bytes))

\* ------------------------------------------------------------------------
\* codec::slave: read_crc, read_rtu_frame, SlaveCodec::decode in Rtu mode
\* ------------------------------------------------------------------------
\* the two CRC bytes are awaited, then the CRC over everything processed
\* (frame and stored CRC) must come out 0
crc_checked(buf, crc) ==
    IF crc = None THEN OkNone
    ELSE IF calc_crc_be(SubSeq(buf, 1, crc[1].pos)) = 0
         THEN OkSome(crc[1].v, crc[1].pos)
    ELSE Err("InvalidCrc")

read_crc(buf, pos) == crc_checked(buf, read_u16_be(buf, pos))

\* RequestFrame::from_parts(0, slave, pdu) once the CRC has verified
rtu_frame(slave, pdu, crc) ==
    IF crc.kind # "some" THEN crc
    ELSE OkSome([id |-> 0, slave |-> slave, pdu |-> pdu.val], crc.pos)

\* the CRC is read where the PDU ends
read_rtu_crc(buf, slave, pdu) ==
    IF pdu.kind # "some" THEN pdu
    ELSE rtu_frame(slave, pdu, read_crc(buf, pdu.pos))

\* the PDU is read after the slave byte
read_rtu_pdu(buf, slave) ==
    IF slave = None THEN OkNone
    ELSE read_rtu_crc(buf, slave[1].v, read_pdu(buf, slave[1].pos))

read_rtu_frame(buf) == read_rtu_pdu(buf, read_u8(buf, 0))

\* SlaveCodec::decode in Rtu mode (always Stream flow)
decode_rtu(src) == decoded(FALSE, src, read_rtu_frame(src))

\* ------------------------------------------------------------------------
\* codec::pduext::write_pdu, ResponsePdu::len, codec::mbap::write_mbap,
\* SlaveCodec::encode in Net mode
\* ------------------------------------------------------------------------
write_u16_be(v) == <<(v \div 256) % 256, v % 256>>

coil_to_raw(value) == IF value THEN COIL_ON ELSE COIL_OFF

\* function | 0x80
OrHighBit(function) == IF function >= 128 THEN function ELSE function + 128

pdu_len(pdu) ==
    CASE pdu.variant \in {"ReadCoils", "ReadDiscreteInputs",
                          "ReadHoldingRegisters", "ReadInputRegisters"} ->
           2 + Len(pdu.data)
      [] pdu.variant \in {"WriteSingleCoil", "WriteSingleRegister",
                          "WriteMultipleCoils", "WriteMultipleRegisters"} -> 5
      [] pdu.variant = "EncapsulatedInterfaceTransport" -> 2 + Len(pdu.data)
      [] pdu.variant = "Raw" -> 1 + Len(pdu.data)
      [] pdu.variant = "Exception" -> 2

\* the bytes write_pdu puts at the cursor; <<"panic">> where it aborts
write_pdu(pdu) ==
    CASE pdu.variant \in {"ReadCoils", "ReadDiscreteInputs"} ->
           <<pdu.function, Len(pdu.data) % 256>> \o pdu.data
      [] pdu.variant \in {"ReadHoldingRegisters", "ReadInputRegisters"} ->
           <<pdu.function, Len(pdu.data) % 256>> \o SwapPairs(pdu.data)
      [] pdu.variant = "WriteSingleCoil" ->
           <<5>> \o write_u16_be(pdu.address) \o write_u16_be(coil_to_raw(pdu.value))
      [] pdu.variant = "WriteSingleRegister" ->
           <<6>> \o write_u16_be(pdu.address) \o write_u16_be(pdu.value)
      [] pdu.variant \in {"WriteMultipleCoils", "WriteMultipleRegisters"} ->
           <<pdu.function>> \o write_u16_be(pdu.address) \o write_u16_be(pdu.nobjs)
      [] pdu.variant = "Exception" ->
           <<OrHighBit(pdu.function), pdu.code>>
      [] pdu.variant = "EncapsulatedInterfaceTransport" ->
           <<43, pdu.mei_type>> \o pdu.data
      [] OTHER -> <<"panic">>

write_mbap_len_of_pdu(frame) ==
    write_u16_be(frame.id) \o write_u16_be(0)
        \o write_u16_be(pdu_len(frame.pdu) % 65536)

write_mbap(frame) ==
    write_u16_be(frame.id) \o write_u16_be(0)
        \o write_u16_be((pdu_len(frame.pdu) + 1) % 65536)

write_net_frame(frame) ==
    write_mbap(frame) \o <<frame.slave>> \o write_pdu(frame.pdu)

resize_buffer_grow_only(dst, size) ==
    IF size <= Len(dst) THEN dst
    ELSE dst \o [i \in 1..(size - Len(dst)) |-> 0]

\* BytesMut::resize(size, 0): truncate, or pad with zeros
resize_buffer(dst, size) ==
    IF size <= Len(dst) THEN SubSeq(dst, 1, size)
    ELSE dst \o [i \in 1..(size - Len(dst)) |-> 0]

\* the output buffer after encode: resized to pdu.len + 7, then written from
\* its first byte; what the buffer holds past the bytes written stays
encode(frame, dst) ==
    LET size == pdu_len(frame.pdu) + 7
        sized == resize_buffer(dst, size)
        bytes == write_net_frame(frame)
    IN bytes \o SubSeq(sized, Len(bytes) + 1, Len(sized))

\* write_crc: the CRC of everything written so far, appended
write_crc(bytes) == write_u16_be(calc_crc_be(bytes))

write_rtu_body(frame) == <<frame.slave>> \o write_pdu(frame.pdu)

write_rtu_frame(frame) ==
    write_rtu_body(frame) \o write_crc(write_rtu_body(frame))

\* the output buffer after encode in Rtu mode: resized to pdu.len + 3
encode_rtu(frame, dst) ==
    LET size == pdu_len(frame.pdu) + 3
        sized == resize_buffer(dst, size)
        bytes == write_rtu_frame(frame)
    IN bytes \o SubSeq(sized, Len(bytes) + 1, Len(sized))

\* ResponseFrame::from_parts
from_parts_new(id, slave, pdu) == [id |-> 0, slave |-> slave, pdu |-> pdu]

from_parts(id, slave, pdu) == [id |-> id, slave |-> slave, pdu |-> pdu]

\* the transaction id carried by an encoded Net frame
WireId(bytes) == bytes[1] * 256 + bytes[2]

\* ------------------------------------------------------------------------
\* transport::udp::queue::FixedQueue
\* ------------------------------------------------------------------------
FixedQueue_new(limit) == [data |-> <<>>, limit |-> limit]

queue_len(q) == Len(q.data)

push_unchecked(q, value) ==
    [q |-> [q EXCEPT !.data = Append(q.data, value)], ok |-> TRUE]

push(q, value) ==
    IF Len(q.data) < q.limit
    THEN [q |-> [q EXCEPT !.data = Append(q.data, value)], ok |-> TRUE]
    ELSE [q |-> q, ok |-> FALSE]

count_free(q) == q.limit - queue_len(q)

pop_front(q) ==
    IF q.data = <<>> THEN q ELSE [q EXCEPT !.data = Tail(q.data)]

push_replace(q, value) ==
    IF count_free(q) > 0 THEN push(q, value)
    ELSE push(pop_front(q), value)

\* position of the first element satisfying the predicate, 0 when none;
\* the predicate is given by the set of values that satisfy it
position_last(data, predicate) ==
    IF \E i \in 1..Len(data) : data[i] \in predicate
    THEN CHOOSE i \in 1..Len(data) :
             data[i] \in predicate
                 /\ \A j \in (i + 1)..Len(data) : data[j] \notin predicate
    ELSE 0

position(data, predicate) ==
    IF \E i \in 1..Len(data) : data[i] \in predicate
    THEN CHOOSE i \in 1..Len(data) :
             data[i] \in predicate /\ \A j \in 1..(i - 1) : data[j] \notin predicate
    ELSE 0

\* take_if: the found element is swapped with the last one, then popped
take_if(q, predicate) ==
    LET pos == position(q.data, predicate)
        len == Len(q.data)
    IN IF pos = 0 THEN [q |-> q, value |-> None]
       ELSE LET swapped == IF len > 1
                           THEN [q.data EXCEPT ![pos] = q.data[len],
                                               ![len] = q.data[pos]]
                           ELSE q.data
            IN [q |-> [q EXCEPT !.data = SubSeq(swapped, 1, len - 1)],
                value |-> Some(q.data[pos])]

\* ------------------------------------------------------------------------
\* State
\* ------------------------------------------------------------------------
VARIABLES
    transport,        \* TransportAddress the program was built with
    handler,          \* the handler task: "running", "stopped" (request
                      \* receiver dropped) or "panicked"
    request_ch,       \* the unbounded request channel
    held,             \* requests the handler took and has not answered yet
    next_uuid,        \* Uuid::new_v4 yields a fresh value every time
    status,           \* per TCP session: "none", "running", "closed", "panicked"
    closed_by,        \* per TCP session: why run() returned Err
    input,            \* Client.context.input
    output,           \* Client.context.output
    wait_for,         \* Client.wait_for : Option<MsgInfo>
    response_ch,      \* per TCP session: its response channel
    forwarded,        \* per TCP session: requests sent on request_tx, in order
    wire,             \* per TCP session: responses written to the socket
    dropped,          \* per TCP session: uuids of responses it discarded
    udp_status,       \* the UDP server task: "running" or "panicked"
    udp_input,        \* UdpServer.context.input
    udp_output,       \* UdpServer.context.output
    queue,            \* UdpServer.queue : FixedQueue<MsgInfo>
    udp_response_ch,  \* the UDP server's response channel
    udp_forwarded,    \* MsgInfo of every request the UDP server forwarded
    udp_sent,         \* send_to calls of the UDP server, in order
    udp_dropped,      \* uuids of responses the UDP server discarded
    udp_last,         \* how the UDP server's latest run() call went
    rtu_status,       \* the RTU channel task: "running" or "panicked"
    rtu_input,        \* RtuSlaveChannel.context.input
    rtu_output,       \* RtuSlaveChannel.context.output
    rtu_response_ch,  \* the RTU channel's response channel
    rtu_forwarded,    \* requests the RTU channel sent on request_tx, in order
    rtu_wire,         \* responses the RTU channel wrote to the port, in order
    rtu_last,         \* how the RTU channel's latest run() call went and the
                      \* input bytes it threw away
    fq,               \* a FixedQueue driven by push, push_replace and take_if;
                      \* its values are the order numbers of their insertion
    fq_clock,         \* how many values were offered to fq so far
    fq_last,          \* the latest call on fq: its argument, what it returned
                      \* and the queue it was made on
    dec_mode,         \* a SlaveCodec under test: "net", "rtu" or "udp"
    dec_stream,       \* the byte stream B that arrives at it
    dec_fed,          \* how many bytes of B were appended to its buffer so far
    dec_buf,          \* its input buffer
    dec_frames,       \* the frames its decode calls yielded, in order
    dec_last,         \* its latest decode call: buffer before, result, buffer after
    pdu_in,           \* the bytes of a PDU handed to read_pdu
    pdu_out,          \* what read_pdu returned for them
    crc_in,           \* a byte sequence X handed to the CRC
    crc_out,          \* the CRC of X and the CRC of X followed by that CRC
    mbap_in,          \* the bytes handed to read_mbap
    mbap_out,         \* what read_mbap returned for them
    enc_mode,         \* a SlaveCodec used as an Encoder: "net" or "rtu"
    enc_frame,        \* the ResponseFrame handed to encode
    enc_dst,          \* the output buffer handed to encode
    enc_out           \* how encode ended and the buffer it left

vars == <<transport, handler, request_ch, held, next_uuid, status, closed_by,
          input, output, wait_for, response_ch, forwarded, wire, dropped,
          udp_status, udp_input, udp_output, queue, udp_response_ch,
          udp_forwarded, udp_sent, udp_dropped, udp_last,
          rtu_status, rtu_input, rtu_output, rtu_response_ch, rtu_forwarded,
          rtu_wire, rtu_last, fq, fq_clock, fq_last,
          dec_mode, dec_stream, dec_fed, dec_buf, dec_frames, dec_last,
          pdu_in, pdu_out, crc_in, crc_out, mbap_in, mbap_out,
          enc_mode, enc_frame, enc_dst, enc_out>>

tcp_vars == <<status, closed_by, input, output, wait_for, response_ch,
              forwarded, wire, dropped>>

udp_vars == <<udp_status, udp_input, udp_output, queue, udp_response_ch,
              udp_forwarded, udp_sent, udp_dropped, udp_last>>

rtu_vars == <<rtu_status, rtu_input, rtu_output, rtu_response_ch,
              rtu_forwarded, rtu_wire, rtu_last>>

queue_vars == <<fq, fq_clock, fq_last>>

dec_vars == <<dec_mode, dec_stream, dec_fed, dec_buf, dec_frames, dec_last>>

pdu_vars == <<pdu_in, pdu_out>>

crc_vars == <<crc_in, crc_out>>

mbap_vars == <<mbap_in, mbap_out>>

enc_vars == <<enc_mode, enc_frame, enc_dst, enc_out>>

\* the state of the stand-alone FixedQueue, codec, read_pdu, CRC, read_mbap
\* and encoder, which no transport touches
harness_vars == <<queue_vars, dec_vars, pdu_vars, crc_vars, mbap_vars,
                  enc_vars>>

\* the state of the servers and the handler
program_vars == <<transport, handler, request_ch, held, next_uuid, tcp_vars,
                  udp_vars, rtu_vars>>

Sessions == {1, 2}

Transports == {"tcp", "udp", "rtu"}

Peers == <<"10.0.0.1:40001", "10.0.0.2:40002">>

\* ------------------------------------------------------------------------
\* Inputs: what a socket read or a datagram may deliver, and what the
\* handler may answer
\* ------------------------------------------------------------------------
\* a complete ReadHoldingRegisters request with transaction id `id`
ReqFrame(id) == <<0, id, 0, 0, 0, 6, 17, 3, 0, 107, 0, 3>>

\* malformed input: a protocol id that is not 0, an MBAP length below 2,
\* a ReadHoldingRegisters request for 0 registers
BadProto == <<0, 1, 0, 1, 0, 6, 17>>

BadLength == <<0, 1, 0, 0, 0, 1, 17>>

BadPdu == <<0, 1, 0, 0, 0, 6, 17, 3, 0, 107, 0, 0>>

Malformed == {BadProto, BadLength, BadPdu}

\* a complete frame of the user-defined function 0x41 with two data bytes
RawFrame(id) == <<0, id, 0, 0, 0, 4, 17, 65, 1, 2>>

\* what one socket read may deliver: the client sends frames one after the
\* other and the stream may split a frame after its header, so a read finds
\* a whole frame, the header of one, or the rest of the frame whose header
\* is already buffered.  A client numbers its requests, so the next frame
\* carries a transaction id it has not used before.
FreshId == 16 + next_uuid

\* a frame of an unlisted function code is tried as the first frame that a
\* run of the program decodes
RawFrames == IF next_uuid = 1 THEN {RawFrame(FreshId)} ELSE {}

Chunks(buffered) ==
    IF buffered = <<>>
    THEN { ReqFrame(FreshId), SubSeq(ReqFrame(FreshId), 1, 7) }
            \cup RawFrames \cup Malformed
    ELSE { SubSeq(ReqFrame(FreshId), Len(buffered) + 1, 12) }

\* the peer the next datagram comes from: the peers take turns
Sender == Peers[(next_uuid % 2) + 1]

\* a request for two registers with two more bytes after the frame
TrailedFrame(id) == <<0, id, 0, 0, 0, 6, 17, 3, 0, 107, 0, 2, 9, 9>>

\* a datagram that carries more bytes than its frame is tried as the first
\* one that a run of the program receives
TrailedFrames == IF next_uuid = 1 THEN {TrailedFrame(FreshId)} ELSE {}

Datagrams ==
    { ReqFrame(FreshId), SubSeq(ReqFrame(FreshId), 1, 7) }
        \cup RawFrames \cup Malformed \cup TrailedFrames

\* RTU: a complete ReadHoldingRegisters request of slave 0x11 with its CRC,
\* the same frame with a wrong CRC, a request for 0 registers (with the CRC
\* of its bytes) and a frame of the user-defined function 0x41 with two
\* data bytes and its CRC
RtuBody == <<17, 3, 0, 107, 0, 3>>

RtuFrame == RtuBody \o write_crc(RtuBody)

RtuBadCrc == RtuBody \o write_u16_be((calc_crc_be(RtuBody) + 1) % 65536)

RtuBadPdu == <<17, 3, 0, 107, 0, 0>> \o write_crc(<<17, 3, 0, 107, 0, 0>>)

RtuRawFrame == <<17, 65, 1, 2>> \o write_crc(<<17, 65, 1, 2>>)

\* what one read of the serial port may deliver: the rest of the frame whose
\* first bytes are buffered, else a whole frame, the first bytes of one, or
\* nothing (Ok(0))
RtuChunks(buffered) ==
    IF buffered = SubSeq(RtuFrame, 1, 5)
    THEN { SubSeq(RtuFrame, 6, Len(RtuFrame)) }
    ELSE { RtuFrame, SubSeq(RtuFrame, 1, 5), RtuBadCrc, RtuBadPdu,
           RtuRawFrame, <<>> }

ResponsePdus ==
    { [variant |-> "Exception", function |-> 3, code |-> 1],
      [variant |-> "ReadHoldingRegisters", function |-> 3, nobjs |-> 1,
       data |-> <<5, 0>>] }

\* what the handler may answer a request with: either PDU for the first
\* request of a run, the register data for the later ones
ReplyPdus(request) ==
    IF request.uuid = 1 THEN ResponsePdus
    ELSE {pdu \in ResponsePdus : pdu.variant = "ReadHoldingRegisters"}

\* ------------------------------------------------------------------------
\* Initial state: build(settings) bound the listener or the datagram socket
\* ------------------------------------------------------------------------
ProgramInit ==
    /\ handler = "running"
    /\ request_ch = <<>>
    /\ held = {}
    /\ next_uuid = 1
    /\ status = [s \in Sessions |-> "none"]
    /\ closed_by = [s \in Sessions |-> "none"]
    /\ input = [s \in Sessions |-> <<>>]
    /\ output = [s \in Sessions |-> <<>>]
    /\ wait_for = [s \in Sessions |-> None]
    /\ response_ch = [s \in Sessions |-> <<>>]
    /\ forwarded = [s \in Sessions |-> <<>>]
    /\ wire = [s \in Sessions |-> <<>>]
    /\ dropped = [s \in Sessions |-> {}]
    /\ udp_status = "running"
    /\ udp_input = <<>>
    /\ udp_output = <<>>
    /\ queue = FixedQueue_new(Min(MAX_REQUESTS_NUM, QueueLimit))
    /\ udp_response_ch = <<>>
    /\ udp_forwarded = {}
    /\ udp_sent = <<>>
    /\ udp_dropped = {}
    /\ udp_last = "start"
    /\ rtu_status = "running"
    /\ rtu_input = <<>>
    /\ rtu_output = <<>>
    /\ rtu_response_ch = <<>>
    /\ rtu_forwarded = <<>>
    /\ rtu_wire = <<>>
    /\ rtu_last = [op |-> "start", discarded |-> <<>>]

\* no FixedQueue under test
QueueIdle ==
    /\ fq = FixedQueue_new(0)
    /\ fq_clock = 0
    /\ fq_last = [op |-> "new"]

\* no codec under test
CodecIdle ==
    /\ dec_mode = "net"
    /\ dec_stream = <<>>
    /\ dec_fed = 0
    /\ dec_buf = <<>>
    /\ dec_frames = <<>>
    /\ dec_last = [src |-> <<>>, kind |-> "start", left |-> <<>>,
                   err |-> "none"]

\* no PDU and no CRC under test
PduIdle == pdu_in = <<>> /\ pdu_out = [kind |-> "start"]

CrcIdle == crc_in = <<>> /\ crc_out = [kind |-> "start"]

\* no MBAP header and no encoder under test
MbapIdle == mbap_in = <<>> /\ mbap_out = [kind |-> "start"]

EncoderIdle ==
    /\ enc_mode = "net"
    /\ enc_frame = [id |-> 0, slave |-> 0,
                    pdu |-> [variant |-> "Exception", function |-> 0,
                             code |-> 0]]
    /\ enc_dst = <<>>
    /\ enc_out = [kind |-> "start"]

\* the program built for one transport, before any task has run
Init ==
    /\ transport \in Transports
    /\ ProgramInit
    /\ QueueIdle
    /\ CodecIdle
    /\ PduIdle
    /\ CrcIdle
    /\ MbapIdle
    /\ EncoderIdle

\* ------------------------------------------------------------------------
\* transport::Request, transport::Response
\* ------------------------------------------------------------------------
\* the Request built by on_request; response_tx is the channel of the
\* session that built it
Request_shared_tx(uuid, frame, tx) ==
    [uuid |-> uuid, slave |-> frame.slave, pdu |-> frame.pdu,
     response_tx |-> IF transport = "tcp" THEN 1 ELSE tx]

Request(uuid, frame, tx) ==
    [uuid |-> uuid, slave |-> frame.slave, pdu |-> frame.pdu, response_tx |-> tx]

\* Response::make
make(request, pdu) ==
    [uuid |-> request.uuid, slave |-> request.slave, pdu |-> pdu,
     response_tx |-> request.response_tx]

\* UnboundedSender<Request>::send succeeds while the receiver is alive
request_send_ok == handler = "running"

\* ------------------------------------------------------------------------
\* TcpServer::spawn_client
\* ------------------------------------------------------------------------
spawn_client(s) ==
    /\ transport = "tcp"
    /\ status[s] = "none"
    /\ status' = [status EXCEPT ![s] = "running"]
    /\ input' = [input EXCEPT ![s] = <<>>]
    /\ output' = [output EXCEPT ![s] = <<>>]
    /\ wait_for' = [wait_for EXCEPT ![s] = None]
    /\ response_ch' = [response_ch EXCEPT ![s] = <<>>]
    /\ UNCHANGED <<harness_vars, transport, handler, request_ch, held, next_uuid, closed_by,
                   forwarded, wire, dropped>>
    /\ UNCHANGED udp_vars
    /\ UNCHANGED rtu_vars

\* ------------------------------------------------------------------------
\* Client::run, the read branch: Err(timeout), Ok(Err(e)) and Ok(Ok(0))
\* ------------------------------------------------------------------------
\* the three arms differ in what they log only: each returns Err, which
\* ends the loop of Client::spawn
ReadCauses == {"timeout", "error", "eof"}

run_read_close_eof_ignored(s, cause) ==
    /\ transport = "tcp"
    /\ status[s] = "running"
    /\ cause \in ReadCauses
    /\ status' = [status EXCEPT ![s] = IF cause = "eof" THEN "running" ELSE "closed"]
    /\ closed_by' = [closed_by EXCEPT ![s] = "read"]
    /\ UNCHANGED <<harness_vars, transport, handler, request_ch, held, next_uuid, input,
                   output, wait_for, response_ch, forwarded, wire, dropped>>
    /\ UNCHANGED udp_vars
    /\ UNCHANGED rtu_vars

run_read_close(s, cause) ==
    /\ transport = "tcp"
    /\ status[s] = "running"
    /\ cause \in ReadCauses
    /\ status' = [status EXCEPT ![s] = "closed"]
    /\ closed_by' = [closed_by EXCEPT ![s] = "read"]
    /\ UNCHANGED <<harness_vars, transport, handler, request_ch, held, next_uuid, input,
                   output, wait_for, response_ch, forwarded, wire, dropped>>
    /\ UNCHANGED udp_vars
    /\ UNCHANGED rtu_vars

\* ------------------------------------------------------------------------
\* Client::run, the read branch with Ok(Ok(nbytes)): on_input, on_request
\* ------------------------------------------------------------------------
\* on_request: wait_for after the request was handed to request_tx
on_request_wait_for_keep_first(old, uuid, mbid, sent) ==
    IF sent /\ old = None THEN Some([uuid |-> uuid, mbid |-> mbid]) ELSE old

on_request_wait_for_unconditional(old, uuid, mbid, sent) ==
    Some([uuid |-> uuid, mbid |-> mbid])

on_request_wait_for(old, uuid, mbid, sent) ==
    IF sent THEN Some([uuid |-> uuid, mbid |-> mbid]) ELSE old

run_read(s, chunk) ==
    /\ transport = "tcp"
    /\ status[s] = "running"
    /\ \E d \in {decode(FALSE, input[s] \o chunk)} :
       LET frame == d.res.val
           uuid == next_uuid
       IN
       /\ d.res.kind = "some" => next_uuid <= MaxTcpRequests
       /\ input' = [input EXCEPT ![s] = d.input]
       /\ CASE d.res.kind = "err" ->
                 /\ status' = [status EXCEPT ![s] = "closed"]
                 /\ closed_by' = [closed_by EXCEPT ![s] = "decode"]
                 /\ UNCHANGED <<request_ch, next_uuid, wait_for, forwarded>>
            [] d.res.kind = "panic" ->
                 /\ status' = [status EXCEPT ![s] = "panicked"]
                 /\ UNCHANGED <<closed_by, request_ch, next_uuid, wait_for,
                                forwarded>>
            [] d.res.kind = "none" ->
                 UNCHANGED <<status, closed_by, request_ch, next_uuid,
                             wait_for, forwarded>>
            [] d.res.kind = "some" ->
                 /\ next_uuid' = next_uuid + 1
                 /\ request_ch' = IF request_send_ok
                                  THEN Append(request_ch, Request(uuid, frame, s))
                                  ELSE request_ch
                 /\ wait_for' = [wait_for EXCEPT ![s] =
                        on_request_wait_for(wait_for[s], uuid, frame.id,
                                            request_send_ok)]
                 /\ forwarded' = IF request_send_ok
                                 THEN [forwarded EXCEPT ![s] =
                                          Append(@, [uuid |-> uuid, mbid |-> frame.id])]
                                 ELSE forwarded
                 /\ UNCHANGED <<status, closed_by>>
    /\ UNCHANGED <<harness_vars, transport, handler, held, output, response_ch, wire, dropped>>
    /\ UNCHANGED udp_vars
    /\ UNCHANGED rtu_vars

\* ------------------------------------------------------------------------
\* Client::run, the response branch: on_response, on_output
\* ------------------------------------------------------------------------
resp_match_any_uuid(w, response) == w # None

resp_match_mbid(w, response) == w # None /\ w[1].mbid = response.uuid

resp_match(w, response) == w # None /\ w[1].uuid = response.uuid

\* a session that answers every request it forwarded and has not answered
\* yet, in the order the responses come in
on_response_any_pending(s, write_ok) ==
    /\ transport = "tcp"
    /\ status[s] = "running"
    /\ response_ch[s] # <<>>
    /\ LET response == Head(response_ch[s])
           pending == {i \in DOMAIN forwarded[s] :
                          forwarded[s][i].uuid = response.uuid}
       IN
       /\ response_ch' = [response_ch EXCEPT ![s] = Tail(@)]
       /\ IF pending # {}
          THEN LET info == forwarded[s][CHOOSE i \in pending : TRUE]
                   frame == from_parts(info.mbid, response.slave, response.pdu)
                   out == encode(frame, output[s])
               IN
               /\ wait_for' = [wait_for EXCEPT ![s] = None]
               /\ IF write_ok
                  THEN /\ wire' = [wire EXCEPT ![s] =
                                Append(@, [uuid |-> response.uuid, bytes |-> out])]
                       /\ input' = [input EXCEPT ![s] = <<>>]
                       /\ output' = [output EXCEPT ![s] = <<>>]
                       /\ UNCHANGED <<status, closed_by>>
                  ELSE /\ output' = [output EXCEPT ![s] = out]
                       /\ status' = [status EXCEPT ![s] = "closed"]
                       /\ closed_by' = [closed_by EXCEPT ![s] = "write"]
                       /\ UNCHANGED <<wire, input>>
               /\ UNCHANGED dropped
          ELSE /\ dropped' = [dropped EXCEPT ![s] = @ \cup {response.uuid}]
               /\ write_ok
               /\ UNCHANGED <<wait_for, wire, input, output, status, closed_by>>
    /\ UNCHANGED <<harness_vars, transport, handler, request_ch, held, next_uuid, forwarded>>
    /\ UNCHANGED udp_vars
    /\ UNCHANGED rtu_vars

on_response(s, write_ok) ==
    /\ transport = "tcp"
    /\ status[s] = "running"
    /\ response_ch[s] # <<>>
    /\ LET response == Head(response_ch[s]) IN
       /\ response_ch' = [response_ch EXCEPT ![s] = Tail(@)]
       /\ IF resp_match(wait_for[s], response)
          THEN LET info == wait_for[s][1]
                   frame == from_parts(info.mbid, response.slave, response.pdu)
                   out == encode(frame, output[s])
               IN
               /\ wait_for' = [wait_for EXCEPT ![s] = None]
               /\ IF write_ok
                  THEN /\ wire' = [wire EXCEPT ![s] =
                                Append(@, [uuid |-> response.uuid, bytes |-> out])]
                       \* context.reset()
                       /\ input' = [input EXCEPT ![s] = <<>>]
                       /\ output' = [output EXCEPT ![s] = <<>>]
                       /\ UNCHANGED <<status, closed_by>>
                  ELSE /\ output' = [output EXCEPT ![s] = out]
                       /\ status' = [status EXCEPT ![s] = "closed"]
                       /\ closed_by' = [closed_by EXCEPT ![s] = "write"]
                       /\ UNCHANGED <<wire, input>>
               /\ UNCHANGED dropped
          ELSE /\ dropped' = [dropped EXCEPT ![s] = @ \cup {response.uuid}]
               /\ write_ok
               /\ UNCHANGED <<wait_for, wire, input, output, status, closed_by>>
    /\ UNCHANGED <<harness_vars, transport, handler, request_ch, held, next_uuid, forwarded>>
    /\ UNCHANGED udp_vars
    /\ UNCHANGED rtu_vars

\* ------------------------------------------------------------------------
\* UdpServer::run, the recv_from branch: on_input, on_request
\* ------------------------------------------------------------------------
\* recv_from(&mut input[..MAX_BUFFER_SIZE]) stores the datagram at the front
recv_into_at_end(buf, dgram) ==
    SubSeq(buf, 1, Len(buf) - Len(dgram)) \o dgram

recv_into(buf, dgram) ==
    dgram \o SubSeq(buf, Len(dgram) + 1, Len(buf))

\* loop { let _ = self.run().await; }: whatever run returns is discarded and
\* run is called again; only a panic inside run ends the task
udp_spawn_loop_break_on_err(kind) ==
    CASE kind = "panic" -> "panicked"
      [] kind = "err" -> "closed"
      [] OTHER -> "running"

udp_spawn_loop(kind) == IF kind = "panic" THEN "panicked" ELSE "running"

udp_run_recv(address, dgram) ==
    /\ transport = "udp"
    /\ udp_status = "running"
    /\ \E d \in {decode(TRUE, resize_buffer(
                   recv_into(resize_buffer(udp_input, MAX_BUFFER_SIZE), dgram),
                   Len(dgram)))} :
       LET frame == d.res.val
           uuid == next_uuid
           info == [uuid |-> uuid, mbid |-> frame.id, address |-> address]
       IN
       /\ d.res.kind = "some" => next_uuid <= MaxUdpRequests
       /\ udp_input' = d.input
       /\ udp_last' = IF d.res.kind = "some" THEN "request" ELSE d.res.kind
       /\ udp_status' = udp_spawn_loop(d.res.kind)
       /\ CASE d.res.kind = "some" ->
                 /\ next_uuid' = next_uuid + 1
                 /\ request_ch' = IF request_send_ok
                                  THEN Append(request_ch, Request(uuid, frame, "udp"))
                                  ELSE request_ch
                 /\ queue' = IF request_send_ok
                             THEN push_replace(queue, info).q
                             ELSE queue
                 /\ udp_forwarded' = IF request_send_ok
                                     THEN udp_forwarded \cup {info}
                                     ELSE udp_forwarded
            [] OTHER ->
                 UNCHANGED <<next_uuid, request_ch, queue, udp_forwarded>>
    /\ UNCHANGED <<harness_vars, transport, handler, held, udp_output, udp_response_ch,
                   udp_sent, udp_dropped>>
    /\ UNCHANGED tcp_vars
    /\ UNCHANGED rtu_vars

\* UdpServer::run, recv_from yields Ok((0, _)) ("empty") or Err(err)
\* ("recv_err"): nothing is processed and the loop in spawn calls run again
RecvFailures == {"empty", "recv_err"}

udp_run_idle(result) ==
    /\ transport = "udp"
    /\ udp_status = "running"
    /\ result \in RecvFailures
    /\ udp_input' = resize_buffer(udp_input, MAX_BUFFER_SIZE)
    /\ udp_last' = result
    /\ UNCHANGED <<harness_vars, transport, handler, request_ch, held, next_uuid, udp_status,
                   udp_output, queue, udp_response_ch, udp_forwarded, udp_sent,
                   udp_dropped>>
    /\ UNCHANGED tcp_vars
    /\ UNCHANGED rtu_vars

\* ------------------------------------------------------------------------
\* UdpServer::run, the response branch: on_response, on_output
\* ------------------------------------------------------------------------
\* a server that answers from the oldest record of the queue
udp_on_response_oldest ==
    /\ transport = "udp"
    /\ udp_status = "running"
    /\ udp_response_ch # <<>>
    /\ LET response == Head(udp_response_ch)
       IN
       /\ udp_response_ch' = Tail(udp_response_ch)
       /\ udp_input' = resize_buffer(udp_input, MAX_BUFFER_SIZE)
       /\ IF queue.data = <<>>
          THEN /\ udp_dropped' = udp_dropped \cup {response.uuid}
               /\ udp_last' = "unmatched"
               /\ UNCHANGED <<queue, udp_output, udp_sent>>
          ELSE LET info == Head(queue.data)
                   frame == from_parts(info.mbid, response.slave, response.pdu)
                   out == encode(frame, udp_output)
               IN /\ queue' = pop_front(queue)
                  /\ udp_output' = out
                  /\ udp_sent' = Append(udp_sent,
                         [uuid |-> response.uuid, to |-> info.address,
                          bytes |-> out])
                  /\ udp_last' \in {"sent", "send_err"}
                  /\ UNCHANGED udp_dropped
    /\ UNCHANGED <<harness_vars, transport, handler, request_ch, held, next_uuid, udp_status,
                   udp_forwarded>>
    /\ UNCHANGED tcp_vars
    /\ UNCHANGED rtu_vars

\* the Result of send_to ("sent" or "send_err") is returned by run and
\* discarded by the loop in spawn, so the server's state does not depend on
\* it; udp_sent lists the datagrams handed to send_to
udp_on_response ==
    /\ transport = "udp"
    /\ udp_status = "running"
    /\ udp_response_ch # <<>>
    /\ LET response == Head(udp_response_ch)
           matches == {queue.data[i] : i \in {j \in DOMAIN queue.data :
                                        queue.data[j].uuid = response.uuid}}
           taken == take_if(queue, matches)
       IN
       /\ udp_response_ch' = Tail(udp_response_ch)
       /\ udp_input' = resize_buffer(udp_input, MAX_BUFFER_SIZE)
       /\ queue' = taken.q
       /\ IF taken.value = None
          THEN /\ udp_dropped' = udp_dropped \cup {response.uuid}
               /\ udp_last' = "unmatched"
               /\ UNCHANGED <<udp_output, udp_sent>>
          ELSE LET info == taken.value[1]
                   frame == from_parts(info.mbid, response.slave, response.pdu)
                   out == encode(frame, udp_output)
               IN /\ udp_output' = out
                  /\ udp_sent' = Append(udp_sent,
                         [uuid |-> response.uuid, to |-> info.address,
                          bytes |-> out])
                  /\ udp_last' \in {"sent", "send_err"}
                  /\ UNCHANGED udp_dropped
    /\ UNCHANGED <<harness_vars, transport, handler, request_ch, held, next_uuid, udp_status,
                   udp_forwarded>>
    /\ UNCHANGED tcp_vars
    /\ UNCHANGED rtu_vars

\* ------------------------------------------------------------------------
\* RtuSlaveChannel::run and the loop of RtuSlaveChannel::spawn
\* ------------------------------------------------------------------------
\* IoContext::reset: both buffers are cleared
context_reset_keep_input(in_buf, out_buf) == [input |-> in_buf, output |-> <<>>]

context_reset(in_buf, out_buf) == [input |-> <<>>, output |-> <<>>]

\* loop { let _ = self.run().await.map_err(..); }: after Ok and after Err
\* alike run is called again; only a panic inside run ends the task
rtu_spawn_loop_break_on_err(result) ==
    CASE result = "panic" -> "panicked"
      [] result = "err" -> "closed"
      [] OTHER -> "running"

rtu_spawn_loop(result) == IF result = "panic" THEN "panicked" ELSE "running"

\* the read branch with Ok(Ok(nbytes)): read_buf has appended the chunk,
\* on_input decodes once and on_request forwards the frame; a decode error
\* makes run return Err, on which the loop of spawn resets the context and
\* calls run again
rtu_run_read(chunk) ==
    /\ transport = "rtu"
    /\ rtu_status = "running"
    /\ Len(rtu_input) + Len(chunk) <= MaxRtuInput
    /\ \E d \in {decode_rtu(rtu_input \o chunk)} :
       LET frame == d.res.val
           uuid == next_uuid
       IN
       /\ d.res.kind = "some" => next_uuid <= MaxRtuRequests
       /\ rtu_status' = rtu_spawn_loop(d.res.kind)
       /\ CASE d.res.kind = "some" ->
                 /\ next_uuid' = next_uuid + 1
                 /\ request_ch' = IF request_send_ok
                                  THEN Append(request_ch, Request(uuid, frame, "rtu"))
                                  ELSE request_ch
                 /\ rtu_forwarded' = IF request_send_ok
                                     THEN Append(rtu_forwarded,
                                              [uuid |-> uuid, pdu |-> frame.pdu])
                                     ELSE rtu_forwarded
                 /\ rtu_input' = d.input
                 /\ rtu_last' = [op |-> "request", discarded |-> <<>>]
                 /\ UNCHANGED rtu_output
            [] d.res.kind = "err" ->
                 /\ \E c \in {context_reset(d.input, rtu_output)} :
                       rtu_input' = c.input /\ rtu_output' = c.output
                 /\ rtu_last' = [op |-> "err", discarded |-> rtu_input \o chunk]
                 /\ UNCHANGED <<next_uuid, request_ch, rtu_forwarded>>
            [] d.res.kind = "panic" ->
                 /\ rtu_input' = d.input
                 /\ rtu_last' = [op |-> "panic", discarded |-> <<>>]
                 /\ UNCHANGED <<next_uuid, request_ch, rtu_forwarded, rtu_output>>
            [] d.res.kind = "none" ->
                 /\ rtu_input' = d.input
                 /\ rtu_last' = [op |-> "none", discarded |-> <<>>]
                 /\ UNCHANGED <<next_uuid, request_ch, rtu_forwarded,
                                rtu_output>>
    /\ UNCHANGED <<harness_vars, transport, handler, held, rtu_response_ch,
                   rtu_wire>>
    /\ UNCHANGED tcp_vars
    /\ UNCHANGED udp_vars

\* the read branch with Err(_): nothing arrived for INACTIVE_TIMEOUT ms;
\* reset("reset by timeout") clears the context and run returns Ok
rtu_run_timeout ==
    /\ transport = "rtu"
    /\ rtu_status = "running"
    /\ \E c \in {context_reset(rtu_input, rtu_output)} :
          rtu_input' = c.input /\ rtu_output' = c.output
    /\ rtu_last' = [op |-> "timeout", discarded |-> rtu_input]
    /\ rtu_status' = rtu_spawn_loop("ok")
    /\ UNCHANGED <<harness_vars, transport, handler, request_ch, held,
                   next_uuid, rtu_response_ch, rtu_forwarded, rtu_wire>>
    /\ UNCHANGED tcp_vars
    /\ UNCHANGED udp_vars

\* the read branch with Ok(Err(e)): run returns Err, on which the loop of
\* spawn resets the context, logs the error and calls run again
rtu_run_read_error ==
    /\ transport = "rtu"
    /\ rtu_status = "running"
    /\ \E c \in {context_reset(rtu_input, rtu_output)} :
          rtu_input' = c.input /\ rtu_output' = c.output
    /\ rtu_last' = [op |-> "read_err", discarded |-> rtu_input]
    /\ rtu_status' = rtu_spawn_loop("err")
    /\ UNCHANGED <<harness_vars, transport, handler, request_ch, held,
                   next_uuid, rtu_response_ch, rtu_forwarded, rtu_wire>>
    /\ UNCHANGED tcp_vars
    /\ UNCHANGED udp_vars

\* the response branch: on_response encodes the response, whichever request
\* it answers, with id 0 and on_output writes it; a write error makes run
\* return Err, on which the loop of spawn resets the context and goes on
rtu_on_response(write_ok) ==
    /\ transport = "rtu"
    /\ rtu_status = "running"
    /\ rtu_response_ch # <<>>
    /\ LET response == Head(rtu_response_ch)
           frame == from_parts(0, response.slave, response.pdu)
           out == encode_rtu(frame, rtu_output)
       IN
       /\ rtu_response_ch' = Tail(rtu_response_ch)
       /\ IF write_ok
          THEN /\ rtu_wire' = Append(rtu_wire,
                      [uuid |-> response.uuid, bytes |-> out])
               /\ rtu_output' = out
               /\ rtu_last' = [op |-> "written", discarded |-> <<>>]
               /\ rtu_status' = rtu_spawn_loop("ok")
               /\ UNCHANGED rtu_input
          ELSE /\ \E c \in {context_reset(rtu_input, out)} :
                     rtu_input' = c.input /\ rtu_output' = c.output
               /\ rtu_last' = [op |-> "write_err", discarded |-> rtu_input]
               /\ rtu_status' = rtu_spawn_loop("err")
               /\ UNCHANGED rtu_wire
    /\ UNCHANGED <<harness_vars, transport, handler, request_ch, held,
                   next_uuid, rtu_forwarded>>
    /\ UNCHANGED tcp_vars
    /\ UNCHANGED udp_vars

\* ------------------------------------------------------------------------
\* The handler side: build_slave's loop takes requests from the stream; the
\* user's handler answers with Response::make(..).send(), in any order, or
\* never (a request it keeps or drops stays in held)
\* ------------------------------------------------------------------------
handler_recv ==
    /\ handler = "running"
    /\ request_ch # <<>>
    /\ held' = held \cup {Head(request_ch)}
    /\ request_ch' = Tail(request_ch)
    /\ UNCHANGED <<harness_vars, transport, handler, next_uuid>>
    /\ UNCHANGED tcp_vars
    /\ UNCHANGED udp_vars
    /\ UNCHANGED rtu_vars

\* the receiving half of the response channel is alive while its owner is
receiver_alive(tx) ==
    CASE transport = "tcp" -> status[tx] = "running"
      [] transport = "udp" -> udp_status = "running"
      [] OTHER -> rtu_status = "running"

\* Response::send: response_tx.take().unwrap().send(self).unwrap()
handler_reply(request, pdu) ==
    /\ handler # "panicked"
    /\ request \in held
    /\ held' = held \ {request}
    /\ IF receiver_alive(request.response_tx)
       THEN /\ CASE transport = "tcp" ->
                      /\ response_ch' = [response_ch EXCEPT ![request.response_tx] =
                                            Append(@, make(request, pdu))]
                      /\ UNCHANGED <<udp_response_ch, rtu_response_ch>>
                 [] transport = "udp" ->
                      /\ udp_response_ch' = Append(udp_response_ch, make(request, pdu))
                      /\ UNCHANGED <<response_ch, rtu_response_ch>>
                 [] OTHER ->
                      /\ rtu_response_ch' = Append(rtu_response_ch, make(request, pdu))
                      /\ UNCHANGED <<response_ch, udp_response_ch>>
            /\ UNCHANGED handler
       ELSE /\ handler' = "panicked"
            /\ UNCHANGED <<response_ch, udp_response_ch, rtu_response_ch>>
    /\ UNCHANGED <<harness_vars, transport, request_ch, next_uuid>>
    /\ UNCHANGED <<status, closed_by, input, output, wait_for, forwarded, wire,
                   dropped>>
    /\ UNCHANGED <<udp_status, udp_input, udp_output, queue, udp_forwarded,
                   udp_sent, udp_dropped, udp_last>>
    /\ UNCHANGED <<rtu_status, rtu_input, rtu_output, rtu_forwarded, rtu_wire,
                   rtu_last>>

\* the handler drops a Request without building a Response: the clone of
\* response_tx it carries goes with it, the server keeps its own
handler_drop(request) ==
    /\ handler # "panicked"
    /\ request \in held
    /\ held' = held \ {request}
    /\ UNCHANGED <<harness_vars, transport, handler, request_ch, next_uuid>>
    /\ UNCHANGED tcp_vars
    /\ UNCHANGED udp_vars
    /\ UNCHANGED rtu_vars

\* the Handler (request receiver) is dropped: later sends on request_tx fail
handler_stop ==
    /\ handler = "running"
    /\ handler' = "stopped"
    /\ request_ch' = <<>>
    /\ UNCHANGED <<harness_vars, transport, held, next_uuid>>
    /\ UNCHANGED tcp_vars
    /\ UNCHANGED udp_vars
    /\ UNCHANGED rtu_vars

\* ------------------------------------------------------------------------
\* Specification
\* ------------------------------------------------------------------------
Next ==
    \/ \E s \in Sessions : spawn_client(s)
    \/ \E s \in Sessions, cause \in ReadCauses : run_read_close(s, cause)
    \/ \E s \in Sessions : \E chunk \in Chunks(input[s]) : run_read(s, chunk)
    \/ \E s \in Sessions, write_ok \in BOOLEAN : on_response(s, write_ok)
    \/ \E address \in {Sender}, dgram \in Datagrams : udp_run_recv(address, dgram)
    \/ \E result \in RecvFailures : udp_run_idle(result)
    \/ udp_on_response
    \/ \E chunk \in RtuChunks(rtu_input) : rtu_run_read(chunk)
    \/ rtu_run_timeout
    \/ rtu_run_read_error
    \/ \E write_ok \in BOOLEAN : rtu_on_response(write_ok)
    \/ handler_recv
    \/ \E request \in held : \E pdu \in ReplyPdus(request) :
          handler_reply(request, pdu)
    \/ \E request \in held : handler_drop(request)
    \/ handler_stop

Spec == Init /\ [][Next]_vars

\* ------------------------------------------------------------------------
\* FixedQueue on its own: any sequence of push, push_replace and take_if on
\* a queue of any limit up to MaxQueueLimit.  The n-th value offered is n,
\* so among the values held the smallest is the one inserted earliest.
\* ------------------------------------------------------------------------
QInit ==
    /\ transport = "none"
    /\ ProgramInit
    /\ CodecIdle
    /\ PduIdle
    /\ CrcIdle
    /\ MbapIdle
    /\ EncoderIdle
    /\ fq \in {FixedQueue_new(limit) : limit \in 0..MaxQueueLimit}
    /\ fq_clock = 0
    /\ fq_last = [op |-> "new"]

q_push ==
    /\ fq_clock < MaxQueueOps
    /\ fq_clock' = fq_clock + 1
    /\ fq' = push(fq, fq_clock + 1).q
    /\ fq_last' = [op |-> "push", value |-> fq_clock + 1,
                   ret |-> push(fq, fq_clock + 1).ok, before |-> fq]
    /\ UNCHANGED <<program_vars, pdu_vars, crc_vars, mbap_vars, enc_vars, dec_vars>>

q_push_replace ==
    /\ fq_clock < MaxQueueOps
    /\ fq_clock' = fq_clock + 1
    /\ fq' = push_replace(fq, fq_clock + 1).q
    /\ fq_last' = [op |-> "push_replace", value |-> fq_clock + 1,
                   ret |-> push_replace(fq, fq_clock + 1).ok, before |-> fq]
    /\ UNCHANGED <<program_vars, pdu_vars, crc_vars, mbap_vars, enc_vars, dec_vars>>

\* the closures tried on the queue: |x| *x == v and |x| *x >= v for every
\* value v, each given by the set of values it accepts
Predicates ==
    {{v} : v \in 1..MaxQueueOps}
        \cup {{w \in 1..MaxQueueOps : w >= v} : v \in 1..MaxQueueOps}

q_take_if(predicate) ==
    /\ fq' = take_if(fq, predicate).q
    /\ fq_last' = [op |-> "take_if", predicate |-> predicate,
                   ret |-> take_if(fq, predicate).value, before |-> fq]
    /\ UNCHANGED <<program_vars, pdu_vars, crc_vars, mbap_vars, enc_vars, dec_vars, fq_clock>>

QNext ==
    \/ q_push
    \/ q_push_replace
    \/ \E predicate \in Predicates : q_take_if(predicate)

QueueSpec == QInit /\ [][QNext]_vars

\* ------------------------------------------------------------------------
\* SlaveCodec on its own, as built by new_tcp ("net"), new_rtu ("rtu") and
\* new_udp ("udp"): a byte stream B arrives in two parts, B = B1 || B2, and
\* decode is called any number of times after each part.  B is made of
\* well-formed frames, or ends in a malformed one.
\* ------------------------------------------------------------------------
\* a WriteMultipleRegisters request for two registers, in both framings
NetWriteFrame == <<0, 3, 0, 0, 0, 11, 17, 16, 0, 1, 0, 2, 4, 0, 10, 1, 2>>

RtuWriteBody == <<17, 16, 0, 1, 0, 2, 4, 0, 10, 1, 2>>

RtuWriteFrame == RtuWriteBody \o write_crc(RtuWriteBody)

\* the well-formed frames a stream is made of
Frames(mode) ==
    IF mode = "rtu" THEN {RtuFrame, RtuRawFrame, RtuWriteFrame}
    ELSE {ReqFrame(1), RawFrame(2), NetWriteFrame}

\* a ReadHoldingRegisters request of 5 PDU bytes under an MBAP header
\* whose length field declares 2 (the slave byte and 1 PDU byte)
BadDeclaredLength == <<0, 5, 0, 0, 0, 2, 17, 3, 0, 107, 0, 3>>

\* the malformed frames a stream may end in
MalformedFrames(mode) ==
    IF mode = "rtu" THEN {RtuBadCrc, RtuBadPdu}
    ELSE Malformed \cup {BadDeclaredLength}

\* function 0x2B with MEI type 0x0D and n bytes after it, under an MBAP
\* header that declares the largest length validate_mbap allows
EitFrame(mode, n) ==
    (IF mode = "rtu" THEN <<17>>
     ELSE write_u16_be(4) \o write_u16_be(0) \o write_u16_be(MAX_DATA_SIZE)
              \o <<17>>)
        \o <<43, 13>> \o [i \in 1..n |-> (i * 7) % 256]

\* the same with as many bytes as a Data buffer holds, and with more
EitFrames(mode) ==
    {EitFrame(mode, n) : n \in MAX_DATA_SIZE..(MAX_DATA_SIZE + Margin)}

RECURSIVE Streams(_, _)
\* the concatenations of at most n frames
Streams(frames, n) ==
    IF n = 0 THEN {<<>>}
    ELSE Streams(frames, n - 1)
            \cup {s \o f : s \in Streams(frames, n - 1), f \in frames}

\* the streams offered to a codec: up to MaxStreamFrames well-formed
\* frames, or at most one well-formed frame and then a malformed one, or
\* one 0x2B / 0x0D frame
Inputs(mode) ==
    Streams(Frames(mode), MaxStreamFrames)
        \cup {s \o b : s \in Streams(Frames(mode), 1),
                        b \in MalformedFrames(mode)}
        \cup EitFrames(mode)

\* SlaveCodec::decode with FlowType::Stream, in the mode of the codec
stream_decode(mode, src) ==
    IF mode = "net" THEN decode(FALSE, src) ELSE decode_rtu(src)

\* SlaveCodec::decode of the codec each constructor builds: new_udp is the
\* one with FlowType::Packet
codec_decode(mode, src) ==
    IF mode = "udp" THEN decode(TRUE, src) ELSE stream_decode(mode, src)

CInit ==
    /\ transport = "none"
    /\ ProgramInit
    /\ QueueIdle
    /\ PduIdle
    /\ CrcIdle
    /\ MbapIdle
    /\ EncoderIdle
    /\ dec_mode \in {"net", "rtu", "udp"}
    /\ dec_stream \in Inputs(dec_mode)
    /\ dec_fed = 0
    /\ dec_buf = <<>>
    /\ dec_frames = <<>>
    /\ dec_last = [src |-> <<>>, kind |-> "start", left |-> <<>>,
                   err |-> "none"]

\* the next n bytes of the stream are appended to the buffer: B1 is any
\* non-empty prefix of B, B2 the rest
c_feed(n) ==
    /\ n \in 1..(Len(dec_stream) - dec_fed)
    /\ dec_fed > 0 => n = Len(dec_stream) - dec_fed
    /\ dec_buf' = dec_buf \o SubSeq(dec_stream, dec_fed + 1, dec_fed + n)
    /\ dec_fed' = dec_fed + n
    /\ UNCHANGED <<program_vars, pdu_vars, crc_vars, mbap_vars, enc_vars, queue_vars, dec_mode,
                   dec_stream, dec_frames, dec_last>>

c_decode ==
    /\ \E d \in {codec_decode(dec_mode, dec_buf)} :
          /\ dec_buf' = d.input
          /\ dec_frames' = IF d.res.kind = "some"
                           THEN Append(dec_frames, d.res.val)
                           ELSE dec_frames
          /\ dec_last' = [src |-> dec_buf, kind |-> d.res.kind, left |-> d.input,
                          err |-> IF d.res.kind = "err" THEN d.res.err
                                  ELSE "none"]
    /\ UNCHANGED <<program_vars, pdu_vars, crc_vars, mbap_vars, enc_vars, queue_vars, dec_mode,
                   dec_stream, dec_fed>>

CNext ==
    \/ \E n \in 1..Len(dec_stream) : c_feed(n)
    \/ c_decode

CodecSpec == CInit /\ [][CNext]_vars

\* ------------------------------------------------------------------------
\* read_pdu on its own: one call on the bytes of a PDU whose declared counts
\* lie at and around the limits
\* ------------------------------------------------------------------------
\* the counts tried: 0 and its neighbours, each limit and its neighbours,
\* and the largest u16
Counts ==
    (0..Margin)
        \cup ((MAX_NREGS - Margin)..(MAX_NREGS + Margin))
        \cup ((MAX_NCOILS - Margin)..(MAX_NCOILS + Margin))
        \cup {65535}

\* n data bytes
DataBytes(n) == [i \in 1..n |-> (i * 7) % 256]

\* a read request (0x01..0x04) for nobjs objects, and the same cut short
ReadPdus ==
    {<<f, 0, 19>> \o write_u16_be(nobjs) : f \in 1..4, nobjs \in Counts}
        \cup {<<f, 0, 19, 0>> : f \in 1..4}

\* the byte counts tried with a write request for nobjs objects: the one
\* the count calls for, its neighbours, 0 and 250
ByteCounts(f, nobjs) ==
    LET want == IF f = 15 THEN (nobjs + 7) \div 8 ELSE 2 * nobjs
    IN ((want - 1)..(want + 1) \cup {0, 250}) \cap 0..255

WritePdu(f, nobjs, nbytes, len) ==
    <<f, 0, 19>> \o write_u16_be(nobjs) \o <<nbytes>> \o DataBytes(len)

\* a write request (0x0F, 0x10) with all of its data bytes, or one short
WritePdusOf(f, nobjs) ==
    UNION {{WritePdu(f, nobjs, nbytes, len) :
                len \in {nbytes - 1, nbytes} \cap 0..255} :
           nbytes \in ByteCounts(f, nobjs)}

WritePdus ==
    UNION {WritePdusOf(f, nobjs) : f \in {15, 16}, nobjs \in Counts}

\* 0x2B with a MEI type that is supported (0x0D, 0x0E) or not, and up to
\* two bytes after it
MeiPdus ==
    {<<43, mei_type>> \o DataBytes(len) :
        mei_type \in {1, 13, 14, 15}, len \in 0..2}
        \cup {<<43>>}

\* the single writes and a function code outside the enumerated set
OtherPdus ==
    {<<5, 0, 172, 255, 0>>, <<5, 0, 172, 0, 0>>, <<5, 0, 172, 255, 1>>,
     <<6, 0, 1, 0, 3>>, <<65, 1, 2>>, <<65>>, <<>>}

PduInputs == ReadPdus \cup WritePdus \cup MeiPdus \cup OtherPdus

PInit ==
    /\ transport = "none"
    /\ ProgramInit
    /\ QueueIdle
    /\ CodecIdle
    /\ CrcIdle
    /\ MbapIdle
    /\ EncoderIdle
    /\ pdu_in \in PduInputs
    /\ pdu_out = [kind |-> "start"]

\* read_pdu(&mut ReadCtx::new(pdu_in))
p_read_pdu ==
    /\ pdu_out.kind = "start"
    /\ pdu_out' = read_pdu(pdu_in, 0)
    /\ UNCHANGED <<program_vars, queue_vars, dec_vars, crc_vars, mbap_vars,
                   enc_vars, pdu_in>>

PNext == p_read_pdu

PduSpec == PInit /\ [][PNext]_vars

\* ------------------------------------------------------------------------
\* The CRC on its own: calc_crc_inner over a byte sequence X, and over X
\* followed by the two bytes of its CRC as they go on the wire
\* ------------------------------------------------------------------------
CrcBytes == {0, 1, 17, 128, 255}

RECURSIVE Seqs(_, _)
\* the sequences of at most n elements of a set
Seqs(set, n) ==
    IF n = 0 THEN {<<>>}
    ELSE Seqs(set, n - 1)
            \cup {Append(x, b) : x \in Seqs(set, n - 1), b \in set}

\* the byte sequences tried, with the two of test::crc_values among them
CrcInputs ==
    Seqs(CrcBytes, MaxCrcLen)
        \cup {<<17, 1, 0, 19, 0, 37>>, <<17, 4, 0, 8, 0, 1>>}

\* a CRC in wire order: low byte first
crc_le(crc) == <<crc % 256, crc \div 256>>

CrcInit ==
    /\ transport = "none"
    /\ ProgramInit
    /\ QueueIdle
    /\ CodecIdle
    /\ PduIdle
    /\ MbapIdle
    /\ EncoderIdle
    /\ crc_in \in CrcInputs
    /\ crc_out = [kind |-> "start"]

\* calc_crc_inner(0xFFFF, X), then calc_crc_inner(0xFFFF, X || crc_le(X))
crc_calc ==
    /\ crc_out.kind = "start"
    /\ \E crc \in {calc_crc_inner(65535, crc_in)} :
          crc_out' = [kind |-> "done", crc |-> crc,
                      residue |-> calc_crc_inner(65535, crc_in \o crc_le(crc))]
    /\ UNCHANGED <<program_vars, queue_vars, dec_vars, pdu_vars, mbap_vars,
                   enc_vars, crc_in>>

CrcNext == crc_calc

CrcSpec == CrcInit /\ [][CrcNext]_vars

\* ------------------------------------------------------------------------
\* read_mbap on its own: one call on a whole header, or on a part of one,
\* whose protocol id and length lie at and around what validate_mbap allows
\* ------------------------------------------------------------------------
MbapLengths ==
    (0..(2 + Margin))
        \cup ((MAX_DATA_SIZE - Margin)..(MAX_DATA_SIZE + Margin))
        \cup {65286, 65535}

MbapHeaders ==
    {write_u16_be(id) \o write_u16_be(proto) \o write_u16_be(len) \o <<slave>> :
        id \in {1, 258}, proto \in {0, 1, 256}, len \in MbapLengths,
        slave \in {0, 17}}

\* a header, a header with the first PDU byte after it, and every part of
\* a header that a read may have delivered so far
MbapInputs ==
    {SubSeq(h, 1, n) : h \in MbapHeaders, n \in 0..7}
        \cup {Append(h, 3) : h \in MbapHeaders}

MInit ==
    /\ transport = "none"
    /\ ProgramInit
    /\ QueueIdle
    /\ CodecIdle
    /\ PduIdle
    /\ CrcIdle
    /\ EncoderIdle
    /\ mbap_in \in MbapInputs
    /\ mbap_out = [kind |-> "start"]

\* read_mbap(&mut ReadCtx::new(mbap_in))
m_read_mbap ==
    /\ mbap_out.kind = "start"
    /\ mbap_out' = read_mbap(mbap_in, 0)
    /\ UNCHANGED <<program_vars, queue_vars, dec_vars, pdu_vars, crc_vars,
                   enc_vars, mbap_in>>

MNext == m_read_mbap

MbapSpec == MInit /\ [][MNext]_vars

\* ------------------------------------------------------------------------
\* The encoder on its own: one encode call, in Net or in Rtu mode, on a
\* response frame of any variant and an output buffer that is empty or
\* still holds what an earlier encode left in it
\* ------------------------------------------------------------------------
\* the longest data a read response carries: MAX_NREGS registers
MaxReadData == 2 * MAX_NREGS

EncodePdus ==
    { [variant |-> "ReadCoils", function |-> 1, nobjs |-> 37,
       data |-> <<205, 107, 178, 14, 27>>],
      [variant |-> "ReadDiscreteInputs", function |-> 2, nobjs |-> 1,
       data |-> <<1>>],
      [variant |-> "ReadHoldingRegisters", function |-> 3, nobjs |-> 1,
       data |-> <<5, 0>>],
      [variant |-> "ReadHoldingRegisters", function |-> 3,
       nobjs |-> MAX_NREGS, data |-> DataBytes(MaxReadData)],
      [variant |-> "ReadInputRegisters", function |-> 4, nobjs |-> 2,
       data |-> <<0, 10, 1, 2>>],
      [variant |-> "WriteSingleCoil", address |-> 172, value |-> TRUE],
      [variant |-> "WriteSingleRegister", function |-> 6, address |-> 1,
       value |-> 3],
      [variant |-> "WriteMultipleCoils", function |-> 15, address |-> 19,
       nobjs |-> 10],
      [variant |-> "WriteMultipleRegisters", function |-> 16, address |-> 1,
       nobjs |-> 2],
      [variant |-> "EncapsulatedInterfaceTransport", mei_type |-> 14,
       data |-> <<1, 0>>],
      [variant |-> "EncapsulatedInterfaceTransport", mei_type |-> 13,
       data |-> DataBytes(MAX_DATA_SIZE)],
      [variant |-> "Exception", function |-> 3, code |-> 1],
      [variant |-> "Raw", function |-> 65, data |-> <<1, 2>>] }

\* a frame of any of these PDUs in Net mode, of the ones up to MaxRtuPduLen
\* bytes long in Rtu mode (which encodes frame.id as nothing)
EncodeFrames(mode) ==
    {from_parts(id, slave, pdu) :
        id \in {1, 258}, slave \in {0, 17},
        pdu \in {q \in EncodePdus :
                    mode = "rtu" => pdu_len(q) <= MaxRtuPduLen}}

\* BytesMut::with_capacity(n) is empty; a buffer that is reused holds an
\* earlier response, shorter or longer than the one encoded next
EncodeBuffers ==
    {<<>>, <<9, 9, 9>>, [i \in 1..(MAX_DATA_SIZE + 9 + Margin) |-> 170]}

\* SlaveCodec::encode: write_pdu aborts on a variant it does not write,
\* after the buffer was resized
encoded(mode, frame, dst) ==
    IF write_pdu(frame.pdu) = <<"panic">> THEN Panic
    ELSE [kind |-> "ok",
          bytes |-> IF mode = "rtu" THEN encode_rtu(frame, dst)
                    ELSE encode(frame, dst)]

EInit ==
    /\ transport = "none"
    /\ ProgramInit
    /\ QueueIdle
    /\ CodecIdle
    /\ PduIdle
    /\ CrcIdle
    /\ MbapIdle
    /\ enc_mode \in {"net", "rtu"}
    /\ enc_frame \in EncodeFrames(enc_mode)
    /\ enc_dst \in EncodeBuffers
    /\ enc_out = [kind |-> "start"]

\* codec.encode(enc_frame, &mut enc_dst)
e_encode ==
    /\ enc_out.kind = "start"
    /\ enc_out' = encoded(enc_mode, enc_frame, enc_dst)
    /\ UNCHANGED <<program_vars, queue_vars, dec_vars, pdu_vars, crc_vars,
                   mbap_vars, enc_mode, enc_frame, enc_dst>>

ENext == e_encode

EncodeSpec == EInit /\ [][ENext]_vars

\* ------------------------------------------------------------------------
\* Properties
\* ------------------------------------------------------------------------
Uuids(seq) == {seq[i].uuid : i \in DOMAIN seq}

Last(seq) == seq[Len(seq)]

\* session s takes the response at the head of its response channel
Taken(s) ==
    /\ status[s] = "running"
    /\ response_ch[s] # <<>>
    /\ response_ch'[s] = Tail(response_ch[s])

\* that response answers the request the session is waiting for
Matched(s) ==
    /\ wait_for[s] # None
    /\ wait_for[s][1].uuid = Head(response_ch[s]).uuid

SessionState(s) ==
    <<status[s], closed_by[s], input[s], output[s], wait_for[s],
      response_ch[s], forwarded[s], wire[s], dropped[s]>>

\* C1: a TCP session writes a response only when wait_for is set and the
\* uuids are equal; any other response it takes changes neither the wire,
\* nor wait_for, nor the buffers, and the session keeps running.
C1_WriteOnlyOnMatch ==
    [][\A s \in Sessions :
          /\ wire'[s] # wire[s] => Taken(s) /\ Matched(s)
          /\ (Taken(s) /\ ~Matched(s)) =>
                /\ wire'[s] = wire[s]
                /\ wait_for'[s] = wait_for[s]
                /\ input'[s] = input[s]
                /\ output'[s] = output[s]
                /\ status'[s] = "running"]_vars

C1_Witness ==
    \E s \in Sessions :
        status[s] = "running" /\ dropped[s] # {} /\ wire[s] # <<>>

\* C2: the frame a TCP session writes carries the transaction id of the
\* request frame whose uuid the response matched, and wait_for is None
\* after the write.
C2_WrittenIdIsRequestId ==
    [][\A s \in Sessions :
          wire'[s] # wire[s] =>
             /\ wait_for'[s] = None
             /\ \E i \in DOMAIN forwarded[s] :
                   /\ forwarded[s][i].uuid = Last(wire'[s]).uuid
                   /\ WireId(Last(wire'[s]).bytes) = forwarded[s][i].mbid]_vars

C2_Witness ==
    \E s \in Sessions :
        /\ Len(wire[s]) = 2
        /\ WireId(wire[s][1].bytes) # WireId(wire[s][2].bytes)

\* C3: within a session the written responses are in the order in which
\* their requests were forwarded.
C3_ResponsesInRequestOrder ==
    \A s \in Sessions :
        \A i, j \in DOMAIN wire[s] :
            i < j =>
               \E ki, kj \in DOMAIN forwarded[s] :
                  /\ ki < kj
                  /\ forwarded[s][ki].uuid = wire[s][i].uuid
                  /\ forwarded[s][kj].uuid = wire[s][j].uuid

C3_Witness ==
    \E s \in Sessions : Len(forwarded[s]) >= 2 /\ Len(wire[s]) >= 2

\* C4, as claimed: while a request awaits its response the session forwards
\* no second request.
C4_NoSecondRequestWhileWaiting ==
    [][\A s \in Sessions :
          wait_for[s] # None => forwarded'[s] = forwarded[s]]_vars

\* C4, amended: wait_for, when set, is the most recently forwarded request,
\* and a response that is written answers the most recently forwarded
\* request; a second request may be forwarded while the first is awaited.
C4_OnlyLatestRequestAwaited ==
    [][\A s \in Sessions :
          /\ wait_for'[s] # None =>
                /\ forwarded'[s] # <<>>
                /\ wait_for'[s][1] = Last(forwarded'[s])
          /\ wire'[s] # wire[s] =>
                Last(wire'[s]).uuid = Last(forwarded[s]).uuid]_vars

C4_Witness ==
    \E s \in Sessions :
        /\ status[s] = "running"
        /\ Len(forwarded[s]) = 2
        /\ wire[s] = <<>>
        /\ dropped[s] = {}
        /\ wait_for[s] = Some(forwarded[s][2])

\* C5: a request forwarded while another is awaited overwrites wait_for; the
\* response to the overwritten request is discarded when it arrives and is
\* never written; the response to the later request is written with the
\* later request's transaction id.
C5_OverwrittenRequestIsDropped ==
    [][\A s \in Sessions :
          /\ Len(forwarded'[s]) > Len(forwarded[s]) =>
                wait_for'[s] = Some(Last(forwarded'[s]))
          /\ (/\ Taken(s)
              /\ \E i \in 1..(Len(forwarded[s]) - 1) :
                    forwarded[s][i].uuid = Head(response_ch[s]).uuid) =>
                /\ wire'[s] = wire[s]
                /\ dropped'[s] = dropped[s] \cup {Head(response_ch[s]).uuid}
          /\ \A u \in dropped'[s] : u \notin Uuids(wire'[s])
          /\ (/\ wire'[s] # wire[s]
              /\ Len(forwarded[s]) >= 2) =>
                /\ Last(wire'[s]).uuid = Last(forwarded[s]).uuid
                /\ WireId(Last(wire'[s]).bytes) = Last(forwarded[s]).mbid]_vars

C5_Witness ==
    \E s \in Sessions :
        /\ Len(forwarded[s]) = 2
        /\ forwarded[s][1].uuid \in dropped[s]
        /\ Uuids(wire[s]) = {forwarded[s][2].uuid}

Distinct(seq) ==
    \A i, j \in DOMAIN seq : seq[i].uuid = seq[j].uuid => i = j

\* the UDP server takes the response at the head of its response channel
UdpTaken ==
    /\ transport = "udp"
    /\ udp_status = "running"
    /\ udp_response_ch # <<>>
    /\ udp_response_ch' = Tail(udp_response_ch)

\* the queue records that carry the uuid of that response
UdpPending == {i \in DOMAIN queue.data :
                  queue.data[i].uuid = Head(udp_response_ch).uuid}

C7_ResponseOnlyToOriginatingSession ==
    [][\A s \in Sessions :
          /\ Uuids(response_ch'[s]) \subseteq Uuids(forwarded'[s])
          /\ Uuids(wire'[s]) \subseteq Uuids(forwarded'[s])
          /\ \A t \in Sessions \ {s} :
                /\ Uuids(wire'[s]) \cap Uuids(forwarded'[t]) = {}
                /\ (status[s] = "running" /\ status'[s] # "running") =>
                      SessionState(t)' = SessionState(t)]_vars

C7_Witness ==
    \E s, t \in Sessions :
        /\ s # t
        /\ status[s] = "closed"
        /\ forwarded[s] # <<>>
        /\ status[t] = "running"
        /\ forwarded[t] # <<>>
        /\ wire[t] # <<>>

\* C8: a read that times out, fails or returns 0 bytes terminates the TCP
\* session, and a terminated session stays terminated, forwards no request
\* and writes no response.
C8_ReadEndTerminatesSession ==
    [][\A s \in Sessions :
          /\ closed_by'[s] = "read" => status'[s] = "closed"
          /\ status[s] = "closed" =>
                /\ status'[s] = "closed"
                /\ forwarded'[s] = forwarded[s]
                /\ wire'[s] = wire[s]
                /\ \A i \in DOMAIN request_ch' :
                      request_ch'[i].response_tx = s =>
                         request_ch'[i] \in {request_ch[j] : j \in DOMAIN request_ch}]_vars

C8_Witness ==
    \E s \in Sessions :
        /\ closed_by[s] = "read"
        /\ wait_for[s] # None
        /\ response_ch[s] # <<>>

\* C9: a codec error on the input of a TCP session forwards no request,
\* leaves the input buffer empty and terminates the session.
C9_DecodeErrorClosesSession ==
    [][\A s \in Sessions :
          /\ closed_by'[s] = "decode" =>
                /\ status'[s] = "closed"
                /\ input'[s] = <<>>
          /\ (closed_by[s] # "decode" /\ closed_by'[s] = "decode") =>
                /\ request_ch' = request_ch
                /\ forwarded' = forwarded
                /\ wait_for' = wait_for
                /\ next_uuid' = next_uuid]_vars

C9_Witness ==
    \E s \in Sessions : closed_by[s] = "decode" /\ wait_for[s] # None

\* C10: a UDP response whose uuid is in the queue removes exactly that
\* record and is sent, with the record's transaction id, to the record's
\* peer, whatever the order of the responses; a response whose uuid is not
\* in the queue sends nothing and leaves the queue as it is.
C10_UdpResponseUsesItsRecord ==
    [][UdpTaken =>
          IF UdpPending # {}
          THEN LET rec == queue.data[CHOOSE i \in UdpPending : TRUE]
                   sent == Last(udp_sent')
               IN /\ rec \in udp_forwarded
                  /\ Len(queue'.data) = Len(queue.data) - 1
                  /\ {queue'.data[i] : i \in DOMAIN queue'.data} =
                        {queue.data[i] : i \in DOMAIN queue.data} \ {rec}
                  /\ Len(udp_sent') = Len(udp_sent) + 1
                  /\ sent.uuid = rec.uuid
                  /\ sent.to = rec.address
                  /\ WireId(sent.bytes) = rec.mbid
                  /\ sent.bytes[7] = Head(udp_response_ch).slave
          ELSE /\ udp_sent' = udp_sent
               /\ queue' = queue]_vars

C10_Witness ==
    /\ udp_dropped # {}
    /\ \E i, j \in DOMAIN udp_sent :
          /\ i < j
          /\ udp_sent[i].uuid > udp_sent[j].uuid
          /\ udp_sent[i].to # udp_sent[j].to

\* ------------------------------------------------------------------------
\* FixedQueue
\* ------------------------------------------------------------------------
\* C11: whatever sequence of push, push_replace and take_if ran on a
\* FixedQueue of limit L, it holds at most L elements and its length and
\* count_free add up to L.  (The UDP server builds its queue with
\* FixedQueue::new(MAX_REQUESTS_NUM) and uses push_replace and take_if only.)
C11_QueueWithinLimit ==
    /\ queue_len(fq) <= fq.limit
    /\ queue_len(fq) + count_free(fq) = fq.limit

\* a full queue that was offered more values than it can hold and from
\* which an element other than the last was taken at some point
C11_Witness ==
    /\ fq.limit >= 2
    /\ queue_len(fq) = fq.limit
    /\ fq_clock > fq.limit
    /\ \E i \in 1..(Len(fq.data) - 1) : fq.data[i] > fq.data[i + 1]

\* the values fq holds
Held == {fq.data[i] : i \in DOMAIN fq.data}

\* C12: push_replace on a full queue evicts the element inserted earliest
\* among those held, then appends the new one.  A step that offers a value
\* to a full queue and changes it is a push_replace (push rejects).
C12_PushReplaceEvictsOldest ==
    [][(/\ fq.limit > 0
        /\ count_free(fq) = 0
        /\ fq_clock' = fq_clock + 1
        /\ fq' # fq)
       => LET HeldAfter == {fq'.data[i] : i \in DOMAIN fq'.data}
              oldest == CHOOSE v \in Held : \A w \in Held : v <= w
          IN /\ HeldAfter = (Held \ {oldest}) \cup {fq_clock + 1}
             /\ fq'.data[Len(fq'.data)] = fq_clock + 1]_vars

\* ------------------------------------------------------------------------
\* UDP: datagrams that do not decode
\* ------------------------------------------------------------------------
\* C13: a run() of the UDP server whose datagram fails to decode ("err") or
\* is incomplete ("none") forwards no request, sends nothing and leaves the
\* queue as it was, and the server keeps running; the datagram that comes
\* next is decoded on its own and, when well-formed, forwarded.
C13_RejectedDatagramChangesNothing ==
    [][/\ udp_last' \in {"err", "none"} =>
            /\ udp_status' = "running"
            /\ udp_forwarded' = udp_forwarded
            /\ next_uuid' = next_uuid
            /\ Len(request_ch') <= Len(request_ch)
            /\ udp_sent' = udp_sent
            /\ queue' = queue
       /\ (udp_last \in {"err", "none"} /\ udp_last' = "request"
              /\ handler = "running") =>
            /\ udp_status' = "running"
            /\ Len(request_ch') = Len(request_ch) + 1
            /\ \E dgram \in Datagrams :
                  /\ read_net_frame(dgram).kind = "some"
                  /\ Last(request_ch').pdu = read_net_frame(dgram).val.pdu
            /\ Cardinality(udp_forwarded') = Cardinality(udp_forwarded) + 1]_vars

\* a datagram was rejected while a request was pending in the queue
C13_Witness ==
    /\ udp_last \in {"err", "none"}
    /\ queue.data # <<>>
    /\ udp_status = "running"

\* ------------------------------------------------------------------------
\* RTU channel
\* ------------------------------------------------------------------------
\* what rtu_last records for a decode result
RtuOutcome(kind) == IF kind = "some" THEN "request" ELSE kind

\* C14: a run() of the RTU channel that ends in the read timeout leaves the
\* input and the output buffer empty and the task running; the bytes of a
\* partial frame received before the silence are gone, so what is decoded
\* after the silence is decoded from the bytes of the next read alone.
C14_TimeoutClearsBuffers ==
    [][/\ rtu_last'.op = "timeout" =>
            /\ rtu_input' = <<>>
            /\ rtu_output' = <<>>
            /\ rtu_status' = "running"
       /\ (rtu_last.op = "timeout" /\ rtu_last'.op \in {"request", "none", "err"}) =>
            \E chunk \in RtuChunks(<<>>) :
                /\ rtu_last'.op = RtuOutcome(decode_rtu(chunk).res.kind)
                /\ rtu_input' = decode_rtu(chunk).input]_vars

\* the timeout struck while the first bytes of a frame were buffered
C14_Witness ==
    /\ rtu_last.op = "timeout"
    /\ rtu_last.discarded = SubSeq(RtuFrame, 1, 5)
    /\ rtu_input = <<>>

\* C15: a run() of the RTU channel whose decode call fails (the CRC does not
\* verify, or the PDU breaks a structural rule) forwards no request, leaves
\* the input buffer empty and does not end the task; a well-formed frame
\* that arrives next is decoded and forwarded.
C15_DecodeErrorKeepsChannel ==
    [][/\ rtu_last'.op = "err" =>
            /\ rtu_input' = <<>>
            /\ rtu_status' = "running"
            /\ rtu_forwarded' = rtu_forwarded
            /\ next_uuid' = next_uuid
            /\ Len(request_ch') <= Len(request_ch)
       /\ (rtu_last.op = "err" /\ rtu_last'.op = "request"
              /\ handler = "running") =>
            /\ rtu_forwarded' = Append(rtu_forwarded,
                   [uuid |-> next_uuid, pdu |-> read_rtu_frame(RtuFrame).val.pdu])
            /\ Len(request_ch') = Len(request_ch) + 1
            /\ Last(request_ch').uuid = next_uuid]_vars

\* a frame with a wrong CRC was thrown away after a request had been
\* forwarded
C15_Witness ==
    /\ rtu_last = [op |-> "err", discarded |-> RtuBadCrc]
    /\ rtu_forwarded # <<>>
    /\ rtu_status = "running"

\* C16: the RTU loop serializes request handling: while a forwarded request
\* has not had its response written to the port, no further request is
\* decoded or forwarded.
C16_RtuOneRequestAtATime ==
    [][Len(rtu_forwarded) > Len(rtu_wire) => rtu_forwarded' = rtu_forwarded]_vars

\* ------------------------------------------------------------------------
\* I/O errors
\* ------------------------------------------------------------------------
\* C17 as stated: on every transport a read error and a write error of the
\* socket or port end the task that met it.
C17_IoErrorTerminatesTask ==
    [][/\ \A s \in Sessions :
            (closed_by'[s] # closed_by[s] /\ closed_by'[s] \in {"read", "write"})
                => status'[s] = "closed"
       /\ (udp_last' # udp_last /\ udp_last' \in {"recv_err", "send_err"})
                => udp_status' # "running"
       /\ (rtu_last' # rtu_last /\ rtu_last'.op \in {"read_err", "write_err"})
                => rtu_status' # "running"]_vars

\* C17: a TCP session ends on a read error and on a write error of its
\* socket and is not resumed.  The UDP server and the RTU channel do not
\* end on an I/O error: run() returns the error, the loop in spawn drops it
\* (the RTU channel clears both buffers first) and calls run() again.
C17_IoErrorTerminatesTcpSessionOnly ==
    [][/\ \A s \in Sessions :
            /\ (closed_by'[s] # closed_by[s] /\ closed_by'[s] \in {"read", "write"})
                  => status'[s] = "closed"
            /\ status[s] = "closed" => status'[s] = "closed"
       /\ udp_last' \in {"recv_err", "send_err"} => udp_status' = "running"
       /\ rtu_last'.op \in {"read_err", "write_err"} =>
            /\ rtu_status' = "running"
            /\ rtu_input' = <<>>
            /\ rtu_output' = <<>>]_vars

\* the RTU channel goes on after a failed write of a response, with a
\* request forwarded before
C17_Witness ==
    /\ rtu_last.op = "write_err"
    /\ rtu_status = "running"
    /\ rtu_forwarded # <<>>

\* ------------------------------------------------------------------------
\* Frames of function codes outside the enumerated set
\* ------------------------------------------------------------------------
\* the request channel has gained a request with the Raw PDU of function
\* 0x41 and the data bytes 01 02
RawForwarded ==
    /\ Len(request_ch') = Len(request_ch) + 1
    /\ Last(request_ch').pdu = [function |-> 65, raw |-> TRUE, data |-> <<1, 2>>]

\* C18: on TCP, UDP and RTU alike, a complete well-formed frame of a
\* function code outside the enumerated set that arrives at an empty input
\* buffer is decoded into a Raw PDU of that function code and forwarded.
C18_UnknownFunctionForwardedAsRaw ==
    [][/\ \A s \in Sessions :
            (input[s] = <<>> /\ handler = "running"
                /\ run_read(s, RawFrame(FreshId))) => RawForwarded
       /\ (handler = "running" /\ udp_run_recv(Sender, RawFrame(FreshId)))
            => RawForwarded
       /\ (rtu_input = <<>> /\ handler = "running" /\ rtu_run_read(RtuRawFrame))
            => RawForwarded]_vars

\* ------------------------------------------------------------------------
\* Incremental decoding in Stream flow
\* ------------------------------------------------------------------------
IsProperPrefix(p, f) == Len(p) < Len(f) /\ p = SubSeq(f, 1, Len(p))

IsPrefix(p, f) == Len(p) <= Len(f) /\ p = SubSeq(f, 1, Len(p))

\* C19: a decode call in Stream flow on a buffer that is a proper prefix of
\* a well-formed frame returns Ok(None) and leaves the buffer as it was.
C19_PrefixDecodesToNone ==
    (/\ dec_mode # "udp"
     /\ dec_last.kind # "start"
     /\ \E f \in Frames(dec_mode) : IsProperPrefix(dec_last.src, f))
    => (dec_last.kind = "none" /\ dec_last.left = dec_last.src)

RECURSIVE DecodeAll(_, _)
\* the frames that repeated decode calls yield from a buffer holding src
DecodeAll(mode, src) ==
    IF stream_decode(mode, src).res.kind = "some"
    THEN <<stream_decode(mode, src).res.val>>
            \o DecodeAll(mode, stream_decode(mode, src).input)
    ELSE <<>>

\* C20: in Stream flow, the frames decoded while a stream B of well-formed
\* frames arrives in two parts are at any time a prefix of the frames decoded from B as a whole, and once B2 is in
\* and decode yields nothing more they are the same frames.
C20_SplitDecodingEqualsWhole ==
    (/\ dec_mode # "udp"
     /\ dec_stream \in Streams(Frames(dec_mode), MaxStreamFrames))
    => /\ IsPrefix(dec_frames, DecodeAll(dec_mode, dec_stream))
       /\ (dec_fed = Len(dec_stream)
              /\ stream_decode(dec_mode, dec_buf).res.kind # "some")
           => dec_frames = DecodeAll(dec_mode, dec_stream)

\* ------------------------------------------------------------------------
\* What a decode call leaves in the input buffer
\* ------------------------------------------------------------------------
\* the buffer without its first n bytes
Advanced(src, n) == SubSeq(src, n + 1, Len(src))

\* C21: when a decode call returns Ok(Some(frame)) on a buffer that starts
\* with a well-formed frame, exactly the bytes of that frame are removed from
\* the front and every following byte is retained in order, so a second
\* complete frame already in the buffer is returned by the next decode call.
C21_FrameBytesConsumed ==
    \A f \in Frames(dec_mode) :
        (dec_last.kind = "some" /\ IsPrefix(f, dec_last.src))
        => /\ dec_last.left = Advanced(dec_last.src, Len(f))
           /\ \A g \in Frames(dec_mode) :
                 IsPrefix(g, Advanced(dec_last.src, Len(f)))
                 => codec_decode(dec_mode, dec_last.left).res.kind = "some"

\* C22: when a decode call returns an error, in any mode (RTU, TCP, UDP),
\* the input buffer is empty afterwards.
C22_ErrorClearsInput ==
    dec_last.kind = "err" => dec_last.left = <<>>

C22_Witness ==
    /\ dec_mode = "rtu"
    /\ dec_last.kind = "err"
    /\ dec_last.src = RtuBadCrc
    /\ Len(dec_frames) = 1
    /\ dec_buf = <<>>

\* C23: in Packet mode (UDP), a decode call that returns Ok(None) because
\* the datagram is an incomplete frame leaves the input buffer empty.
C23_PacketIncompleteClearsInput ==
    (dec_mode = "udp" /\ dec_last.kind = "none") => dec_last.left = <<>>

C23_Witness ==
    /\ dec_mode = "udp"
    /\ dec_last.kind = "none"
    /\ IsProperPrefix(dec_last.src, NetWriteFrame)
    /\ Len(dec_last.src) > 7
    /\ dec_buf = <<>>

\* ------------------------------------------------------------------------
\* Requests the handler drops
\* ------------------------------------------------------------------------
\* no Request and no Response of this uuid exists any more: the handler
\* dropped the request (or the request channel was dropped with it in it)
\* and a response to it can never arrive
Unanswerable(uuid, channel) ==
    /\ uuid \notin Uuids(request_ch)
    /\ uuid \notin {r.uuid : r \in held}
    /\ uuid \notin Uuids(channel)

\* the TCP session awaits a request that was dropped
TcpDropped(s) ==
    /\ transport = "tcp"
    /\ status[s] = "running"
    /\ wait_for[s] # None
    /\ Unanswerable(wait_for[s][1].uuid, response_ch[s])

\* the records of the UDP queue whose request was dropped
UdpDroppedRecords ==
    {queue.data[i] : i \in {j \in DOMAIN queue.data :
        Unanswerable(queue.data[j].uuid, udp_response_ch)}}

C25_PushAppendsOrRejects ==
    fq_last.op = "push"
    => IF queue_len(fq_last.before) = fq_last.before.limit
       THEN fq_last.ret = FALSE /\ fq = fq_last.before
       ELSE /\ fq_last.ret = TRUE
            /\ fq.data = Append(fq_last.before.data, fq_last.value)
            /\ fq.limit = fq_last.before.limit

\* a push that a full queue of several elements rejected
C25_Witness ==
    /\ fq_last.op = "push"
    /\ fq_last.ret = FALSE
    /\ fq.limit >= 2
    /\ queue_len(fq) = fq.limit

\* the elements of a queue (the values offered to fq are all different)
Elements(data) == {data[i] : i \in DOMAIN data}

\* C26: take_if(pred) removes at most one element.  If some element
\* satisfies pred, the first such element in queue order is removed and
\* returned, len decreases by exactly one and every other element remains
\* in the queue; if none satisfies pred it returns None and the queue is
\* unchanged.
C26_TakeIfRemovesFirstMatch ==
    fq_last.op = "take_if"
    => LET old == fq_last.before.data
           hits == {i \in DOMAIN old : old[i] \in fq_last.predicate}
       IN IF hits = {}
          THEN fq_last.ret = None /\ fq = fq_last.before
          ELSE LET first == CHOOSE i \in hits : \A j \in hits : i <= j
               IN /\ fq_last.ret = Some(old[first])
                  /\ queue_len(fq) = Len(old) - 1
                  /\ fq.limit = fq_last.before.limit
                  /\ Elements(fq.data) = Elements(old) \ {old[first]}

\* a take_if whose closure accepted several elements, the first of which
\* was neither the oldest value nor at the back
C26_Witness ==
    /\ fq_last.op = "take_if"
    /\ LET old == fq_last.before.data
           hits == {i \in DOMAIN old : old[i] \in fq_last.predicate}
       IN /\ Cardinality(hits) >= 2
          /\ fq_last.ret # None
          /\ \E i \in hits : old[i] < fq_last.ret[1]
          /\ Len(old) >= 3

\* ------------------------------------------------------------------------
\* read_pdu: the counts and lengths of the PDUs it returns
\* ------------------------------------------------------------------------
\* C27: every RequestPdu the decoder returns satisfies the structural
\* constraints: 1 <= nobjs <= 2000 for 0x01, 0x02 and 0x0F; 1 <= nobjs <= 125
\* for 0x03, 0x04 and 0x10; data.len = ceil(nobjs/8) for WriteMultipleCoils
\* and data.len = 2*nobjs for WriteMultipleRegisters; mei_type is 0x0D or
\* 0x0E with data.len >= 1 for 0x2B.
C27_ReturnedPduWellFormed ==
    pdu_out.kind = "some"
    => LET pdu == pdu_out.val
       IN CASE pdu.function \in {1, 2} ->
                 pdu.nobjs >= 1 /\ pdu.nobjs <= 2000
            [] pdu.function \in {3, 4} ->
                 pdu.nobjs >= 1 /\ pdu.nobjs <= 125
            [] pdu.function = 15 ->
                 /\ pdu.nobjs >= 1 /\ pdu.nobjs <= 2000
                 /\ Len(pdu.data) * 8 >= pdu.nobjs
                 /\ (Len(pdu.data) - 1) * 8 < pdu.nobjs
            [] pdu.function = 16 ->
                 /\ pdu.nobjs >= 1 /\ pdu.nobjs <= 125
                 /\ Len(pdu.data) = 2 * pdu.nobjs
            [] pdu.function = 43 ->
                 /\ pdu.mei_type \in {13, 14}
                 /\ Len(pdu.data) >= 1
            [] OTHER -> TRUE

\* a WriteMultipleCoils request for 2000 coils was returned with 250 bytes
C27_Witness ==
    /\ pdu_out.kind = "some"
    /\ pdu_out.val.function = 15
    /\ pdu_out.val.nobjs = 2000
    /\ Len(pdu_out.val.data) = 250
    /\ Len(pdu_in) = 256

\* the count declared in a read request of five bytes or more
DeclaredNobjs == pdu_in[4] * 256 + pdu_in[5]

\* C28: for function codes 0x01-0x04 with the full 5-byte PDU present, the
\* decoder accepts the request if and only if nobjs is in range
\* (1..=MAX_NCOILS for 0x01/0x02, 1..=MAX_NREGS for 0x03/0x04) and otherwise
\* returns InvalidData; nobjs = 0 and nobjs = MAX+1 are rejected and
\* nobjs = MAX is accepted.
C28_ReadCountAcceptedIffInRange ==
    (pdu_out.kind # "start" /\ Len(pdu_in) >= 5 /\ pdu_in[1] \in 1..4)
    => IF /\ DeclaredNobjs >= 1
          /\ DeclaredNobjs <= (IF pdu_in[1] \in {1, 2}
                                THEN MAX_NCOILS ELSE MAX_NREGS)
       THEN /\ pdu_out.kind = "some"
            /\ pdu_out.val.function = pdu_in[1]
            /\ pdu_out.val.nobjs = DeclaredNobjs
       ELSE pdu_out = Err("InvalidData")

\* ReadCoils for exactly MAX_NCOILS coils was accepted
C28_Witness ==
    /\ pdu_in = <<1, 0, 19>> \o write_u16_be(MAX_NCOILS)
    /\ pdu_out.kind = "some"
    /\ pdu_out.val.nobjs = MAX_NCOILS

\* ------------------------------------------------------------------------
\* CRC-16/Modbus
\* ------------------------------------------------------------------------
\* C30: for any byte sequence X, updating the CRC (initial 0xFFFF,
\* crc = (crc >> 8) XOR TABLE[(crc XOR byte) & 0xFF]) over X followed by the
\* two CRC bytes of X in wire (little-endian) order yields 0.
C30_CrcResidueIsZero ==
    crc_out.kind = "done" => crc_out.residue = 0

\* the first vector of test::crc_values: its CRC goes on the wire as 0E 84
C30_Witness ==
    /\ crc_in = <<17, 1, 0, 19, 0, 37>>
    /\ crc_out.kind = "done"
    /\ crc_le(crc_out.crc) = <<14, 132>>
    /\ crc_out.residue = 0

\* ------------------------------------------------------------------------
\* RTU: the CRC of a frame
\* ------------------------------------------------------------------------
\* the buffers on which the CRC decides: a slave byte, a well-formed PDU
\* and two CRC bytes, right or wrong
RtuCrcFrames == Frames("rtu") \cup {RtuBadCrc}

\* C29: in RTU mode, once slave, PDU and both CRC bytes are present the
\* frame is returned (with id = 0) if and only if the CRC-16/Modbus computed
\* over slave || pdu || received CRC bytes is 0, otherwise the result is
\* InvalidCrc; while fewer than two bytes follow the PDU the result is
\* Ok(None), never an error.
C29_RtuFrameIffCrcVerifies ==
    (dec_mode = "rtu" /\ dec_last.kind # "start")
    => \A f \in RtuCrcFrames :
          /\ IsPrefix(f, dec_last.src)
             => IF calc_crc_inner(65535, f) = 0
                THEN /\ dec_last.kind = "some"
                     /\ Last(dec_frames).id = 0
                     /\ Last(dec_frames).slave = f[1]
                ELSE dec_last.kind = "err" /\ dec_last.err = "InvalidCrc"
          /\ (IsProperPrefix(dec_last.src, f)
                 /\ Len(dec_last.src) >= Len(f) - 2)
             => dec_last.kind = "none"

\* ------------------------------------------------------------------------
\* C31: read_mbap on fewer than 7 bytes returns Ok(None) whatever the bytes
\* are; on 7 bytes or more it returns InvalidVersion if proto # 0, else
\* InvalidData if len < 2 or len > MAX_DATA_SIZE, else the header
\* (id, proto, len, slave) read from the first 7 bytes.
\* ------------------------------------------------------------------------
BE16(bytes, i) == bytes[i] * 256 + bytes[i + 1]

C31_MbapDecode ==
    mbap_out.kind # "start" =>
        IF Len(mbap_in) < 7 THEN mbap_out = OkNone
        ELSE IF BE16(mbap_in, 3) # 0 THEN mbap_out = Err("InvalidVersion")
        ELSE IF BE16(mbap_in, 5) < 2 \/ BE16(mbap_in, 5) > MAX_DATA_SIZE
             THEN mbap_out = Err("InvalidData")
        ELSE /\ mbap_out.kind = "some"
             /\ mbap_out.val = [id |-> BE16(mbap_in, 1), proto |-> 0,
                                len |-> BE16(mbap_in, 5),
                                slave |-> mbap_in[7]]

\* read_mbap was called on six bytes whose protocol id is not 0
C31_Witness ==
    /\ Len(mbap_in) = 6
    /\ BE16(mbap_in, 3) # 0
    /\ mbap_out = OkNone

\* ------------------------------------------------------------------------
\* C32: the encoder produces exactly pdu.len + 3 bytes laid out as
\* slave || pdu || CRC in RTU mode, and exactly pdu.len + 7 bytes laid out
\* as id (BE16) || 0x0000 || pdu.len + 1 (BE16) || slave || pdu in Net mode.
\* ------------------------------------------------------------------------
\* the buffer holds n bytes: slave, the PDU, and the CRC of both, low byte
\* first
RtuLayout(bytes, frame, n) ==
    /\ Len(bytes) = n + 3
    /\ bytes[1] = frame.slave
    /\ SubSeq(bytes, 2, n + 1) = write_pdu(frame.pdu)
    /\ SubSeq(bytes, n + 2, n + 3)
          = crc_le(calc_crc_inner(65535, SubSeq(bytes, 1, n + 1)))

NetLayout(bytes, frame, n) ==
    /\ Len(bytes) = n + 7
    /\ BE16(bytes, 1) = frame.id
    /\ BE16(bytes, 3) = 0
    /\ BE16(bytes, 5) = n + 1
    /\ bytes[7] = frame.slave
    /\ SubSeq(bytes, 8, n + 7) = write_pdu(frame.pdu)

EncodedLayout ==
    /\ enc_out.kind = "ok"
    /\ IF enc_mode = "rtu"
       THEN RtuLayout(enc_out.bytes, enc_frame, pdu_len(enc_frame.pdu))
       ELSE NetLayout(enc_out.bytes, enc_frame, pdu_len(enc_frame.pdu))

\* the claim as stated: every encode call ends with that layout
C32_EncodedLayout == enc_out.kind # "start" => EncodedLayout

\* C32 as amended: every encode call on a response that is not Raw ends
\* with that layout, whatever the output buffer held; on a Raw response
\* write_pdu aborts (unreachable!) and nothing is produced.
C32_EncodedLayoutUnlessRaw ==
    enc_out.kind # "start" =>
        IF enc_frame.pdu.variant = "Raw" THEN enc_out = Panic
        ELSE EncodedLayout

\* a response was encoded into a buffer that held a longer one
C32_Witness ==
    /\ enc_out.kind = "ok"
    /\ Len(enc_dst) > Len(enc_out.bytes)
    /\ enc_frame.pdu.variant = "ReadCoils"

\* ------------------------------------------------------------------------
\* C33: the decoder never aborts: in every mode and on every input a decode
\* call returns Ok(Some(frame)), Ok(None) or Err, also on function 0x2B
\* with MEI type 0x0D followed by more than MAX_DATA_SIZE bytes.
\* ------------------------------------------------------------------------
C33_DecodeNeverAborts ==
    dec_last.kind \in {"start", "some", "none", "err"}

\* ------------------------------------------------------------------------
\* C34: the handler can call Response::send for any request it received:
\* when the TCP session the request came from has already terminated the
\* response is discarded and the handler task is not aborted.
\* ------------------------------------------------------------------------
C34_SendNeverAbortsHandler == transport = "tcp" => handler # "panicked"

\* ------------------------------------------------------------------------
\* C35: in a TCP session that does not terminate every request frame received
\* on the socket is eventually forwarded, also one that arrives before
\* the response to an earlier request has been written: no received request
\* bytes are discarded.  Bytes leave the input buffer of a session that
\* goes on running only by being decoded into a frame, so a step in which
\* the session writes a response leaves the buffer as it found it.
\* ------------------------------------------------------------------------
C35_NoReceivedBytesDiscarded ==
    [][\A s \in Sessions :
          (/\ status[s] = "running"
           /\ status'[s] = "running"
           /\ Len(wire'[s]) > Len(wire[s]))
              => input'[s] = input[s]]_vars

\* ------------------------------------------------------------------------
\* C36: UDP datagrams are decoded in isolation: what the server does with a
\* datagram (the outcome of the decode, the request it forwards, the
\* buffer the decode leaves) is what decoding the bytes of that datagram
\* alone gives, whatever an earlier datagram left in the input buffer.
\* ------------------------------------------------------------------------
\* the request sent last on the request channel
LastRequest == request_ch[Len(request_ch)]

DecodedAlone(dgram) ==
    LET d == decode(TRUE, dgram) IN
    /\ udp_last' = RtuOutcome(d.res.kind)
    /\ udp_input' = d.input
    /\ (d.res.kind = "some" /\ handler = "running") =>
          /\ Len(request_ch') = Len(request_ch) + 1
          /\ LastRequest'.slave = d.res.val.slave
          /\ LastRequest'.pdu = d.res.val.pdu
          /\ Last(queue'.data).mbid = d.res.val.id

C36_DatagramDecodedInIsolation ==
    [][\A dgram \in Datagrams :
          udp_run_recv(Sender, dgram) => DecodedAlone(dgram)]_vars

\* the first datagram left the two bytes that trailed its frame in the
\* buffer, and the frame of a second datagram was forwarded after it
C36_Witness ==
    /\ transport = "udp"
    /\ udp_last = "request"
    /\ Len(request_ch) = 2
    /\ request_ch[1].pdu = [function |-> 3, address |-> 107, nobjs |-> 2]
    /\ request_ch[2].pdu = [function |-> 3, address |-> 107, nobjs |-> 3]
    /\ udp_input = <<>>

\* ------------------------------------------------------------------------
\* C37: a successful Net-mode decode consumes exactly 6 + L bytes of input,
\* where L is the MBAP length field of the decoded frame: the PDU neither
\* extends past the boundary the header declares nor ends before it.
\* ------------------------------------------------------------------------
C37_NetDecodeConsumesDeclaredLength ==
    (dec_mode \in {"net", "udp"} /\ dec_last.kind = "some")
        => Len(dec_last.src) - Len(dec_last.left) = 6 + BE16(dec_last.src, 5)

\* ------------------------------------------------------------------------
\* C38: on all three transports the bytes written to the wire for a response
\* are exactly the encoding of that response frame (id, slave, pdu):
\* nothing an earlier, possibly longer, response left in the output buffer
\* appears in a later transmission, also where the buffer is not reset
\* between responses (UDP, RTU).
\* ------------------------------------------------------------------------
\* the record the UDP server holds for a response
UdpInfo(response) ==
    CHOOSE info \in Elements(queue.data) : info.uuid = response.uuid

UdpWritesEncoding ==
    Len(udp_sent') > Len(udp_sent) =>
        LET response == Head(udp_response_ch) IN
        Last(udp_sent').bytes
            = write_net_frame(from_parts(UdpInfo(response).mbid,
                                         response.slave, response.pdu))

RtuWritesEncoding ==
    Len(rtu_wire') > Len(rtu_wire) =>
        LET response == Head(rtu_response_ch) IN
        Last(rtu_wire').bytes
            = write_rtu_frame(from_parts(0, response.slave, response.pdu))

TcpWritesEncoding(s) ==
    Len(wire'[s]) > Len(wire[s]) =>
        LET response == Head(response_ch[s]) IN
        Last(wire'[s]).bytes
            = write_net_frame(from_parts(wait_for[s][1].mbid,
                                         response.slave, response.pdu))

C38_WireIsEncodingOfResponse ==
    [][/\ UdpWritesEncoding
       /\ RtuWritesEncoding
       /\ \A s \in Sessions : TcpWritesEncoding(s)]_vars

\* the RTU channel wrote a response shorter than the one before it, with the
\* longer one still in the output buffer when it was encoded
C38_Witness ==
    /\ transport = "rtu"
    /\ Len(rtu_wire) = 2
    /\ Len(rtu_wire[1].bytes) > Len(rtu_wire[2].bytes)
    /\ rtu_last.op = "written"
    /\ rtu_output = rtu_wire[2].bytes

\* ------------------------------------------------------------------------
\* C39: correlation state is recorded only for requests handed to the
\* handler: a TCP session sets wait_for, and the UDP server pushes a queue
\* record, only when the send on the request channel succeeded; when it
\* fails (the handler's receiver is gone) wait_for and the queue are left
\* unchanged and the session keeps running.
\* ------------------------------------------------------------------------
\* on_request ran in this step: it drew the uuid next_uuid
OnRequestRan == next_uuid' # next_uuid

Recorded ==
    /\ Len(request_ch') = Len(request_ch) + 1
    /\ LastRequest'.uuid = next_uuid
    /\ transport = "tcp" =>
          \E s \in Sessions :
              /\ wait_for'[s] # None
              /\ wait_for'[s][1].uuid = next_uuid
              /\ \A t \in Sessions \ {s} : wait_for'[t] = wait_for[t]
    /\ transport = "udp" =>
          /\ queue'.data # <<>>
          /\ Last(queue'.data).uuid = next_uuid

NothingRecorded ==
    /\ request_ch' = request_ch
    /\ wait_for' = wait_for
    /\ queue' = queue
    /\ status' = status
    /\ udp_status' = udp_status

C39_RecordedOnlyWhenSent ==
    [][OnRequestRan =>
          IF handler = "running" THEN Recorded ELSE NothingRecorded]_vars

\* a TCP session forwarded request 1 and awaits its response; the handler
\* was dropped, request 2 was decoded and could not be sent, and wait_for
\* still names request 1
C39_Witness ==
    /\ transport = "tcp"
    /\ handler = "stopped"
    /\ next_uuid = 3
    /\ wait_for[1] # None
    /\ wait_for[1][1].uuid = 1
    /\ Len(forwarded[1]) = 1
    /\ forwarded[2] = <<>>
    /\ status[1] = "running"

\* ------------------------------------------------------------------------
\* C40: the RTU channel writes a response to the serial port only if it
\* answers the most recently forwarded request (and no inactivity reset or
\* decode error has occurred since that request was forwarded): a late
\* response to an abandoned or superseded request is not transmitted.  The
\* formula is the first of these conditions, which the claim implies: every
\* response written carries the uuid of the last request forwarded.
\* ------------------------------------------------------------------------
C40_RtuWritesOnlyLatestAnswer ==
    [][Len(rtu_wire') > Len(rtu_wire) =>
          /\ rtu_forwarded # <<>>
          /\ Last(rtu_wire').uuid = Last(rtu_forwarded).uuid]_vars
====
